---- MODULE Spec2Model ----
(***************************************************************************)
(* Similarity search over RGB points: LinearSearch, the spatial hash grids  *)
(* (cube enumeration and expanding radius), the recursive octree and the    *)
(* iterative quadtrees.                                                     *)
(*                                                                          *)
(* Numbers.  Every double of the program is modelled exactly as an integer  *)
(* count of units of 2^-15: record coordinates are multiples of 1/2, the    *)
(* bounds of a node at depth d are multiples of 255/2^d (d <= 15), and on   *)
(* such values the sums, differences, halvings and products the code      *)
(* computes are exact; sqrt is strictly monotone, so `sqrt(x) <= t` is     *)
(* x <= t^2 and `sqrt(x) < sqrt(y)` is x < y.  Squares do not fit TLC's    *)
(* 32-bit integers and are held as three limbs in base 2^15.                *)
(*                                                                          *)
(* Image::filename is carried by the program but never read by insert or    *)
(* findSimilar; a record is modelled as [id, r, g, b].                      *)
(***************************************************************************)
EXTENDS Integers, Naturals, Sequences, FiniteSets, Bags, TLC

\* ------------------------------------------------------------------ bounds
MaxInserts == 3
MaxImagesPerNode == 1
LoopFuelBits == 12
DepthExplored == 14
BenchMaxImages == 2

\* ------------------------------------------------------- program constants
RgbMax == 255
OctreeDepthLimit == 15
QuadtreeDepthLimit == 10
QuadtreeEduDepthLimit == 12
OctreeIterativeDepthLimit == 10

\* ------------------------------------------------------ exact arithmetic
Scale == 2^15
Half == Scale \div 2

\* a value given in halves (x2 = 2 * value) as a count of 2^-15 units
H(x2) == x2 * Half

Abs(x) == IF x < 0 THEN -x ELSE x

\* x*x for 0 <= x < 2^24, as <<hi, mid, lo>> in base Scale
Sq(x) ==
    LET h == x \div Scale
        l == x % Scale
        l2 == l * l
        m == 2 * h * l + (l2 \div Scale)
    IN  <<h * h + (m \div Scale), m % Scale, l2 % Scale>>

\* a + b + c on limb triples
Add3(a, b, c) ==
    LET n0 == a[3] + b[3] + c[3]
        n1 == a[2] + b[2] + c[2] + (n0 \div Scale)
    IN  <<a[1] + b[1] + c[1] + (n1 \div Scale), n1 % Scale, n0 % Scale>>

LimbLess(a, b) ==
    \/ a[1] < b[1]
    \/ a[1] = b[1] /\ a[2] < b[2]
    \/ a[1] = b[1] /\ a[2] = b[2] /\ a[3] < b[3]

LimbLeq(a, b) == ~LimbLess(b, a)

\* ------------------------------------------------------------ input sets
Pt(r2, g2, b2) == [r |-> H(r2), g |-> H(g2), b |-> H(b2)]

\* (0,0,0) and (10,10,10): two records of the spec's first scenario, in the
\* same octant down to depth 4; (127.5,127.5,127.5): on the root midpoints;
\* (10,10,250): same (r,g) as another point, different b
Points == { Pt(0, 0, 0), Pt(20, 20, 20), Pt(255, 255, 255), Pt(20, 20, 500) }

\* (100,127.5,127.5) lies at exactly 27.5 from (127.5,127.5,127.5) and from
\* the octant [127.5,255]^3
Queries == { Pt(20, 20, 20), Pt(200, 255, 255), Pt(255, 255, 255) }

\* 0, 20, 27.5
Thresholds == { H(0), H(40), H(55) }

\* > 255*sqrt(3): the ball covers the whole colour cube from any query
WholeSpace == H(884)

TreeThresholds == Thresholds \cup {WholeSpace}

\* HashSearch(25.0) of experimentalAnalysis, HashSearch(double = 30.0)
CellSizes == { H(50), H(60) }

NoPoint == [r |-> -1, g |-> -1, b |-> -1]

\* --------------------------------------------------------------- Image
distSq(a, b) == Add3(Sq(Abs(a.r - b.r)), Sq(Abs(a.g - b.g)), Sq(Abs(a.b - b.b)))

\* a plausible slip: < for <=
WithinStrict(query, img, threshold) ==
    threshold >= 0 /\ LimbLess(distSq(query, img), Sq(threshold))

\* query.distanceTo(img) <= threshold; a distance is never below zero
Within(query, img, threshold) ==
    threshold >= 0 /\ LimbLeq(distSq(query, img), Sq(threshold))

\* the comparator of every std::sort call: query.distanceTo(a) < query.distanceTo(b)
Closer(query, a, b) == LimbLess(distSq(query, a), distSq(query, b))

\* ss[lo] \o ... \o ss[hi], by halving
RECURSIVE Flatten(_, _, _)
Flatten(ss, lo, hi) ==
    IF lo > hi THEN <<>>
    ELSE IF lo = hi THEN ss[lo]
    ELSE LET mid == (lo + hi) \div 2
         IN  Flatten(ss, lo, mid) \o Flatten(ss, mid + 1, hi)

\* a plausible slip: the sort left out
SortForgotten(query, s) == s

\* std::sort(results.begin(), results.end(), by distance to query): the
\* distinct distances in ascending order, and for each the entries at that
\* distance in their order of arrival (equal entries are not reordered; no
\* property checked here depends on the order of entries at equal distance)
SortByDistance(query, s) ==
    LET dist == [i \in DOMAIN s |-> distSq(query, s[i])]
        keys == { dist[i] : i \in DOMAIN s }
        rank(k) == Cardinality({ j \in keys : LimbLess(j, k) }) + 1
        ordered == [n \in 1..Cardinality(keys) |-> CHOOSE k \in keys : rank(k) = n]
        entry == [i \in DOMAIN s |-> [img |-> s[i], d |-> dist[i]]]
        group == [n \in 1..Cardinality(keys) |->
                     LET at == SelectSeq(entry, LAMBDA e : e.d = ordered[n])
                     IN  [i \in DOMAIN at |-> at[i].img]]
    IN  Flatten(group, 1, Cardinality(keys))

\* the records of s that pass `distance <= threshold`, in order
Matching(query, threshold, s) == SelectSeq(s, LAMBDA x : Within(query, x, threshold))

\* --------------------------------------------------------- LinearSearch
LinearInsert(imgs, img) == Append(imgs, img)

LinearFindSimilar(imgs, query, threshold) ==
    SortByDistance(query, Matching(query, threshold, imgs))

\* ----------------------------------------------------------- HashSearch
\* a plausible slip: the quotient rounded to the nearest integer
rgbToCellRounded(value, cs) ==
    IF value >= 0 THEN (value + cs \div 2) \div cs ELSE -((-value + cs \div 2) \div cs)

\* static_cast<int>(value / cellSize): truncation toward zero
rgbToCell(value, cs) ==
    IF value >= 0 THEN value \div cs ELSE -((-value) \div cs)

getCellKey(rc, gc, bc) ==
    ToString(rc) \o "," \o ToString(gc) \o "," \o ToString(bc)

imgCellKey(img, cs) ==
    getCellKey(rgbToCell(img.r, cs), rgbToCell(img.g, cs), rgbToCell(img.b, cs))

\* a plausible slip: the cast without the ceil
cellRadiusTruncated(threshold, cs) == threshold \div cs

\* static_cast<int>(ceil(threshold / cellSize)); \div rounds down, so this
\* is the ceiling for a negative threshold too
cellRadius(threshold, cs) == (threshold + cs - 1) \div cs

\* a plausible slip: the bucket is assigned, not appended to
HashInsertOverwrite(g, img, cs) ==
    LET key == imgCellKey(img, cs)
    IN  IF key \in DOMAIN g
        THEN [g EXCEPT ![key] = <<img>>]
        ELSE g @@ (key :> <<img>>)

\* grid[key].push_back(img): operator[] creates the bucket when absent
HashInsert(g, img, cs) ==
    LET key == imgCellKey(img, cs)
    IN  IF key \in DOMAIN g
        THEN [g EXCEPT ![key] = Append(@, img)]
        ELSE g @@ (key :> <<img>>)

\* a plausible slip: grid[key] instead of grid.find(key), which creates the
\* bucket it looks for
GridFindCreating(g, key) ==
    [grid |-> IF key \in DOMAIN g THEN g ELSE g @@ (key :> <<>>),
     bucket |-> IF key \in DOMAIN g THEN g[key] ELSE <<>>]

\* grid.find(key): the bucket when present, nothing otherwise; the grid is
\* returned with the bucket because a lookup is allowed to change it
GridFind(g, key) ==
    [grid |-> g, bucket |-> IF key \in DOMAIN g THEN g[key] ELSE <<>>]

\* one cell: the lookup, then the distance filter over the bucket
searchSingleCell(st, rc, gc, bc, query, threshold) ==
    LET f == GridFind(st.grid, getCellKey(rc, gc, bc))
    IN  [grid |-> f.grid,
         results |-> st.results \o Matching(query, threshold, f.bucket)]

\* iterations lo..hi of the three nested loops over dr, dg, db in
\* [-radius, radius] (iteration n is the n-th offset in loop order), by
\* halving; Visit(st, dr, dg, db) is the loop body; st = [grid, results]
RECURSIVE CubeLoop(_, _, _, _, _)
CubeLoop(Visit(_, _, _, _), st, radius, lo, hi) ==
    LET w == 2 * radius + 1
    IN  IF lo > hi THEN st  \* -radius > radius: the loops make no iteration
        ELSE IF lo = hi
        THEN Visit(st, (lo \div (w * w)) - radius, ((lo \div w) % w) - radius,
                   (lo % w) - radius)
        ELSE LET mid == (lo + hi) \div 2
                 first == CubeLoop(Visit, st, radius, lo, mid)
             IN  \* the test only makes TLC finish the first half before the second
                 IF Len(first.results) >= 0
                 THEN CubeLoop(Visit, first, radius, mid + 1, hi)
                 ELSE first

CubeCells(radius) ==
    IF radius < 0 THEN 0 ELSE (2 * radius + 1) * (2 * radius + 1) * (2 * radius + 1)

\* HashSearch::findSimilar; returns [grid, results]
HashFindSimilar(g, cs, query, threshold) ==
    LET cell_radius == cellRadius(threshold, cs)
        query_r == rgbToCell(query.r, cs)
        query_g == rgbToCell(query.g, cs)
        query_b == rgbToCell(query.b, cs)
        Visit(st, dr, dg, db) ==
            searchSingleCell(st, query_r + dr, query_g + dg, query_b + db, query, threshold)
        st == CubeLoop(Visit, [grid |-> g, results |-> <<>>], cell_radius,
                       0, CubeCells(cell_radius) - 1)
    IN  [grid |-> st.grid, results |-> SortByDistance(query, st.results)]

\* ---------------------------------------------------- HashDynamicSearch
\* searchCubeAtRadius: every cell of the cube of this radius
DynSearchCubeAtRadius(st, cr, cg, cb, radius, query, threshold) ==
    LET Visit(s, dr, dg, db) ==
            searchSingleCell(s, cr + dr, cg + dg, cb + db, query, threshold)
    IN  CubeLoop(Visit, st, radius, 0, CubeCells(radius) - 1)

\* for (radius = from; radius <= max_radius; radius++) searchCubeAtRadius
RECURSIVE DynRadiusLoop(_, _, _, _, _, _, _, _)
DynRadiusLoop(st, from, max_radius, cr, cg, cb, query, threshold) ==
    IF from > max_radius THEN st
    ELSE LET done == DynSearchCubeAtRadius(st, cr, cg, cb, from, query, threshold)
         IN  IF Len(done.results) >= 0
             THEN DynRadiusLoop(done, from + 1, max_radius, cr, cg, cb, query, threshold)
             ELSE done

DynFindSimilar(g, cs, query, threshold) ==
    LET st == DynRadiusLoop([grid |-> g, results |-> <<>>], 0, cellRadius(threshold, cs),
                            rgbToCell(query.r, cs), rgbToCell(query.g, cs),
                            rgbToCell(query.b, cs), query, threshold)
    IN  [grid |-> st.grid, results |-> SortByDistance(query, st.results)]

\* ------------------------------------------- HashSearch of hash_search.h
\* abs(dr)+abs(dg)+abs(db) == radius || abs(dr) == radius || abs(dg) == radius
\*                                   || abs(db) == radius
AtRadius(dr, dg, db, radius) ==
    \/ Abs(dr) + Abs(dg) + Abs(db) = radius
    \/ Abs(dr) = radius \/ Abs(dg) = radius \/ Abs(db) = radius

HdrSearchCubeAtRadius(st, cr, cg, cb, radius, query, threshold) ==
    IF radius = 0 THEN searchSingleCell(st, cr, cg, cb, query, threshold)
    ELSE LET Visit(s, dr, dg, db) ==
                 IF AtRadius(dr, dg, db, radius)
                 THEN searchSingleCell(s, cr + dr, cg + dg, cb + db, query, threshold)
                 ELSE s
         IN  CubeLoop(Visit, st, radius, 0, CubeCells(radius) - 1)

\* the radius loop of findSimilarDynamic with its break on maxResults
RECURSIVE HdrRadiusLoop(_, _, _, _, _, _, _, _, _)
HdrRadiusLoop(st, from, max_radius, cr, cg, cb, query, threshold, maxResults) ==
    IF from > max_radius THEN st
    ELSE LET done == HdrSearchCubeAtRadius(st, cr, cg, cb, from, query, threshold)
         IN  IF maxResults > 0 /\ Len(done.results) >= maxResults THEN done
             ELSE HdrRadiusLoop(done, from + 1, max_radius, cr, cg, cb, query, threshold,
                                maxResults)

findSimilarDynamic(g, cs, query, threshold, maxResults) ==
    LET st == HdrRadiusLoop([grid |-> g, results |-> <<>>], 0, cellRadius(threshold, cs),
                            rgbToCell(query.r, cs), rgbToCell(query.g, cs),
                            rgbToCell(query.b, cs), query, threshold, maxResults)
        sorted == SortByDistance(query, st.results)
    IN  [grid |-> st.grid,
         results |-> IF maxResults > 0 /\ Len(sorted) > maxResults
                     THEN SubSeq(sorted, 1, maxResults) ELSE sorted]

\* HashSearch::findSimilar of hash_search.h: -1 = no result limit
HdrFindSimilar(g, cs, query, threshold) == findSimilarDynamic(g, cs, query, threshold, -1)

\* ----------------------------------------------------------- OctreeNode
\* A tree is a function from paths to nodes: the root is <<>>, child i of
\* the node at p is at Append(p, i); children[i] is null iff that path is
\* not in the domain.
OctreeNodeNew(minR, maxR, minG, maxG, minB, maxB) ==
    [minR |-> minR, maxR |-> maxR, minG |-> minG, maxG |-> maxG,
     minB |-> minB, maxB |-> maxB, images |-> <<>>, isLeaf |-> TRUE]

OctGetChildIndex(node, img) ==
    LET midR == (node.minR + node.maxR) \div 2
        midG == (node.minG + node.maxG) \div 2
        midB == (node.minB + node.maxB) \div 2
    IN  (IF img.r >= midR THEN 4 ELSE 0)
      + (IF img.g >= midG THEN 2 ELSE 0)
      + (IF img.b >= midB THEN 1 ELSE 0)

\* the box of children[i]
OctChildBox(node, i) ==
    LET midR == (node.minR + node.maxR) \div 2
        midG == (node.minG + node.maxG) \div 2
        midB == (node.minB + node.maxB) \div 2
    IN  OctreeNodeNew(IF i \div 4 = 0 THEN node.minR ELSE midR,
                      IF i \div 4 = 0 THEN midR ELSE node.maxR,
                      IF (i \div 2) % 2 = 0 THEN node.minG ELSE midG,
                      IF (i \div 2) % 2 = 0 THEN midG ELSE node.maxG,
                      IF i % 2 = 0 THEN node.minB ELSE midB,
                      IF i % 2 = 0 THEN midB ELSE node.maxB)

OctCreateChildren(nodes, p) ==
    [q \in DOMAIN nodes \cup { Append(p, i) : i \in 0..7 } |->
        IF q = p THEN [nodes[p] EXCEPT !.isLeaf = FALSE]
        ELSE IF q \in DOMAIN nodes THEN nodes[q]
        ELSE OctChildBox(nodes[p], q[Len(q)])]

\* --------------------------------------------------------- OctreeSearch
\* insertRecursive runs as a machine over its own call stack, one frame per
\* active call: [p, img, i], where i = 0 is a call that has not started and
\* i >= 1 a call inside its redistribution loop, about to move images[i] of
\* the node at p.  depth is Len(p).  st = [nodes, maxDepth, stack].
OctFrame(p, img, i) == [p |-> p, img |-> img, i |-> i]

\* a plausible slip: the split node keeps its buffer
OctClearBufferForgotten(nodes, p) == nodes

\* node->images.clear() at the end of the redistribution
OctClearBuffer(nodes, p) == [nodes EXCEPT ![p].images = <<>>]

\* a plausible slip: >= for >, a leaf splits on reaching the capacity
OctMustSplitAtCapacity(size, depth) ==
    size >= MaxImagesPerNode /\ depth < OctreeDepthLimit

\* the division criterion, tested on the buffer after the push_back
OctMustSplit(size, depth) ==
    size > MaxImagesPerNode /\ depth < OctreeDepthLimit

OctInsertStep(st) ==
    LET f == st.stack[Len(st.stack)]
        rest == SubSeq(st.stack, 1, Len(st.stack) - 1)
        p == f.p
        depth == Len(p)
        node == st.nodes[p]
    IN  IF f.i = 0
        THEN LET md == IF depth > st.maxDepth THEN depth ELSE st.maxDepth
             IN  IF node.isLeaf
                 THEN IF OctMustSplit(Len(node.images) + 1, depth)
                      THEN \* push_back, createChildren, enter the loop
                           [nodes |-> OctCreateChildren(
                                          [st.nodes EXCEPT ![p].images = Append(@, f.img)], p),
                            maxDepth |-> md,
                            stack |-> Append(rest, OctFrame(p, f.img, 1))]
                      ELSE [nodes |-> [st.nodes EXCEPT ![p].images = Append(@, f.img)],
                            maxDepth |-> md,
                            stack |-> rest]
                 ELSE \* the call on the child is the last thing this call does
                      [nodes |-> st.nodes,
                       maxDepth |-> md,
                       stack |-> Append(rest, OctFrame(Append(p, OctGetChildIndex(node, f.img)),
                                                       f.img, 0))]
        ELSE IF f.i > Len(node.images)
             THEN [nodes |-> OctClearBuffer(st.nodes, p),
                   maxDepth |-> st.maxDepth,
                   stack |-> rest]
             ELSE LET existingImg == node.images[f.i]
                      childIdx == OctGetChildIndex(node, existingImg)
                  IN  [nodes |-> st.nodes,
                       maxDepth |-> st.maxDepth,
                       stack |-> rest \o <<OctFrame(p, f.img, f.i + 1),
                                           OctFrame(Append(p, childIdx), existingImg, 0)>>]

\* up to 2^k steps, stopping when the outermost call has returned
RECURSIVE OctInsertRun(_, _)
OctInsertRun(st, k) ==
    IF st.stack = <<>> THEN st
    ELSE IF k = 0 THEN OctInsertStep(st)
    ELSE OctInsertRun(OctInsertRun(st, k - 1), k - 1)

OctInsertRecursive(nodes, maxDepth, img) ==
    OctInsertRun([nodes |-> nodes, maxDepth |-> maxDepth,
                  stack |-> <<OctFrame(<<>>, img, 0)>>], LoopFuelBits)

\* one axis of the point-to-box distance
AxisGap(x, lo, hi) == IF x < lo THEN lo - x ELSE IF x > hi THEN x - hi ELSE 0

\* squared distance from query to the box of an octree node
OctMinDistSq(node, query) ==
    Add3(Sq(AxisGap(query.r, node.minR, node.maxR)),
         Sq(AxisGap(query.g, node.minG, node.maxG)),
         Sq(AxisGap(query.b, node.minB, node.maxB)))

\* a plausible slip: < for <=
OctNodeIntersectsStrict(node, query, threshold) ==
    threshold >= 0 /\ LimbLess(OctMinDistSq(node, query), Sq(threshold))

\* sqrt(minDistSq) <= threshold
OctNodeIntersectsQueryRadius(node, query, threshold) ==
    threshold >= 0 /\ LimbLeq(OctMinDistSq(node, query), Sq(threshold))

\* searchRecursive as a machine: stack holds the calls still to make, the
\* next one on top; st = [stack, results]
OctSearchStep(nodes, query, threshold, st) ==
    LET p == st.stack[Len(st.stack)]
        rest == SubSeq(st.stack, 1, Len(st.stack) - 1)
    IN  IF p \notin DOMAIN nodes THEN [stack |-> rest, results |-> st.results]
        ELSE IF ~OctNodeIntersectsQueryRadius(nodes[p], query, threshold)
             THEN [stack |-> rest, results |-> st.results]
        ELSE IF nodes[p].isLeaf
             THEN [stack |-> rest,
                   results |-> st.results \o Matching(query, threshold, nodes[p].images)]
        ELSE \* children 0..7 in order: child 0 is called first
             [stack |-> rest \o [k \in 1..8 |-> Append(p, 8 - k)],
              results |-> st.results]

RECURSIVE OctSearchRun(_, _, _, _, _)
OctSearchRun(nodes, query, threshold, st, k) ==
    IF st.stack = <<>> THEN st
    ELSE IF k = 0 THEN OctSearchStep(nodes, query, threshold, st)
    ELSE OctSearchRun(nodes, query, threshold,
                      OctSearchRun(nodes, query, threshold, st, k - 1), k - 1)

OctSearchRecursive(nodes, query, threshold) ==
    OctSearchRun(nodes, query, threshold,
                 [stack |-> << <<>> >>, results |-> <<>>], LoopFuelBits).results

OctreeNew ==
    [nodes |-> (<<>> :> OctreeNodeNew(0, RgbMax * Scale, 0, RgbMax * Scale, 0, RgbMax * Scale)),
     totalImages |-> 0, maxDepth |-> 0]

OctreeInsert(tree, img) ==
    LET tr == OctInsertRecursive(tree.nodes, tree.maxDepth, img)
    IN  [nodes |-> tr.nodes, totalImages |-> tree.totalImages + 1, maxDepth |-> tr.maxDepth]

OctreeFindSimilar(tree, query, threshold) ==
    SortByDistance(query, OctSearchRecursive(tree.nodes, query, threshold))

\* --------------------------------------------------------- QuadtreeNode
QuadtreeNodeNew(minR, maxR, minG, maxG) ==
    [minR |-> minR, maxR |-> maxR, minG |-> minG, maxG |-> maxG,
     images |-> <<>>, isLeaf |-> TRUE]

QuadGetChildIndex(node, img) ==
    LET midR == (node.minR + node.maxR) \div 2
        midG == (node.minG + node.maxG) \div 2
    IN  (IF img.r >= midR THEN 2 ELSE 0) + (IF img.g >= midG THEN 1 ELSE 0)

\* the rectangle of children[i]
QuadChildBox(node, i) ==
    LET midR == (node.minR + node.maxR) \div 2
        midG == (node.minG + node.maxG) \div 2
    IN  QuadtreeNodeNew(IF i \div 2 = 0 THEN node.minR ELSE midR,
                        IF i \div 2 = 0 THEN midR ELSE node.maxR,
                        IF i % 2 = 0 THEN node.minG ELSE midG,
                        IF i % 2 = 0 THEN midG ELSE node.maxG)

QuadCreateChildren(nodes, p) ==
    [q \in DOMAIN nodes \cup { Append(p, i) : i \in 0..3 } |->
        IF q = p THEN [nodes[p] EXCEPT !.isLeaf = FALSE]
        ELSE IF q \in DOMAIN nodes THEN nodes[q]
        ELSE QuadChildBox(nodes[p], q[Len(q)])]

\* ---------------------------------------------- QuadtreeIterativeSearch
\* One pass of the `while (!nodeStack.empty())` loop of insertIntoChild
\* (and of the educational insertIterative, the same body with another
\* depth limit).  st = [nodes, maxDepth, stack, img, parent, todo]; stack
\* holds <<path, depth>> pairs, the top last.
StackInsertStep(st, limit) ==
    LET top == st.stack[Len(st.stack)]
        rest == SubSeq(st.stack, 1, Len(st.stack) - 1)
        p == top[1]
        depth == top[2]
        node == st.nodes[p]
        md == IF depth > st.maxDepth THEN depth ELSE st.maxDepth
    IN  IF node.isLeaf
        THEN LET imgs == Append(node.images, st.img)
             IN  IF Len(imgs) > MaxImagesPerNode /\ depth < limit
                 THEN \* createChildren; images.clear(); then for every
                      \* image: push its child on the stack and push_back the
                      \* image straight into that child
                      LET split == QuadCreateChildren(st.nodes, p)
                          idx(k) == QuadGetChildIndex(node, imgs[k])
                      IN  [st EXCEPT
                             !.nodes = [q \in DOMAIN split |->
                                 IF q = p THEN [split[p] EXCEPT !.images = <<>>]
                                 ELSE IF Len(q) = Len(p) + 1 /\ SubSeq(q, 1, Len(p)) = p
                                 THEN [split[q] EXCEPT !.images =
                                          SelectSeq(imgs, LAMBDA e :
                                              QuadGetChildIndex(node, e) = q[Len(q)])]
                                 ELSE split[q]],
                             !.maxDepth = md,
                             !.stack = rest \o [k \in 1..Len(imgs) |->
                                                   <<Append(p, idx(k)), depth + 1>>]]
                 ELSE [st EXCEPT !.nodes[p].images = imgs, !.maxDepth = md, !.stack = rest]
        ELSE [st EXCEPT !.maxDepth = md,
                        !.stack = Append(rest, <<Append(p, QuadGetChildIndex(node, st.img)),
                                                 depth + 1>>)]

\* quadtree.h: the loop of insertIntoChild, and between two calls the
\* `for (existingImg : imagesToRedistribute)` loop of insertIterative that
\* makes them (todo = the images it has not reached yet)
insertIntoChild(st) ==
    IF st.stack # <<>> THEN StackInsertStep(st, QuadtreeDepthLimit)
    ELSE LET existingImg == Head(st.todo)
             childIdx == QuadGetChildIndex(st.nodes[st.parent], existingImg)
         IN  [st EXCEPT !.stack = << <<Append(st.parent, childIdx), Len(st.parent) + 1>> >>,
                        !.img = existingImg,
                        !.todo = Tail(st.todo)]

RECURSIVE QuadInsertRun(_, _)
QuadInsertRun(st, k) ==
    IF st.stack = <<>> /\ st.todo = <<>> THEN st
    ELSE IF k = 0 THEN insertIntoChild(st)
    ELSE QuadInsertRun(QuadInsertRun(st, k - 1), k - 1)

\* the descent of insertIterative: the leaf under p on img's way down
RECURSIVE QuadLeafFor(_, _, _)
QuadLeafFor(nodes, p, img) ==
    IF nodes[p].isLeaf THEN p
    ELSE QuadLeafFor(nodes, Append(p, QuadGetChildIndex(nodes[p], img)), img)

\* quadtree.h insertIterative; returns [nodes, maxDepth]
insertIterative(nodes, maxDepth, img) ==
    LET p == QuadLeafFor(nodes, <<>>, img)
        currentDepth == Len(p)
        md == IF currentDepth > maxDepth THEN currentDepth ELSE maxDepth
        imgs == Append(nodes[p].images, img)
    IN  IF Len(imgs) > MaxImagesPerNode /\ currentDepth < QuadtreeDepthLimit
        THEN LET out == QuadInsertRun(
                            [nodes |-> QuadCreateChildren(nodes, p),
                             maxDepth |-> md, stack |-> <<>>, img |-> img,
                             parent |-> p, todo |-> imgs], LoopFuelBits)
             IN  [nodes |-> out.nodes, maxDepth |-> out.maxDepth]
        ELSE [nodes |-> [nodes EXCEPT ![p].images = imgs], maxDepth |-> md]

\* part_002 insertIterative: one stack loop from the root
RECURSIVE EduInsertRun(_, _)
EduInsertRun(st, k) ==
    IF st.stack = <<>> THEN st
    ELSE IF k = 0 THEN StackInsertStep(st, QuadtreeEduDepthLimit)
    ELSE EduInsertRun(EduInsertRun(st, k - 1), k - 1)

EduInsertIterative(nodes, maxDepth, img) ==
    LET out == EduInsertRun([nodes |-> nodes, maxDepth |-> maxDepth,
                             stack |-> << <<(<<>>), 0>> >>, img |-> img,
                             parent |-> <<>>, todo |-> <<>>], LoopFuelBits)
    IN  [nodes |-> out.nodes, maxDepth |-> out.maxDepth]

\* squared distance from query to the rectangle of a quadtree node (R, G)
QuadMinDistSq(node, query) ==
    Add3(Sq(AxisGap(query.r, node.minR, node.maxR)),
         Sq(AxisGap(query.g, node.minG, node.maxG)),
         <<0, 0, 0>>)

\* a plausible slip: < for <=
QuadNodeIntersectsStrict(node, query, threshold) ==
    threshold >= 0 /\ LimbLess(QuadMinDistSq(node, query), Sq(threshold))

\* sqrt(minDistSq) <= threshold, minDistSq over R and G only
QuadNodeIntersectsQueryRadius(node, query, threshold) ==
    threshold >= 0 /\ LimbLeq(QuadMinDistSq(node, query), Sq(threshold))

\* one pass of the loop of searchIterative; st = [queue, results], the
\* front of the queue first
QuadSearchStep(nodes, query, threshold, st) ==
    LET p == Head(st.queue)
        rest == Tail(st.queue)
    IN  IF p \notin DOMAIN nodes THEN [queue |-> rest, results |-> st.results]
        ELSE IF ~QuadNodeIntersectsQueryRadius(nodes[p], query, threshold)
             THEN [queue |-> rest, results |-> st.results]
        ELSE IF nodes[p].isLeaf
             THEN [queue |-> rest,
                   results |-> st.results \o Matching(query, threshold, nodes[p].images)]
        ELSE [queue |-> rest \o [k \in 1..4 |-> Append(p, k - 1)],
              results |-> st.results]

RECURSIVE QuadSearchRun(_, _, _, _, _)
QuadSearchRun(nodes, query, threshold, st, k) ==
    IF st.queue = <<>> THEN st
    ELSE IF k = 0 THEN QuadSearchStep(nodes, query, threshold, st)
    ELSE QuadSearchRun(nodes, query, threshold,
                       QuadSearchRun(nodes, query, threshold, st, k - 1), k - 1)

searchIterative(nodes, query, threshold) ==
    QuadSearchRun(nodes, query, threshold,
                  [queue |-> << <<>> >>, results |-> <<>>], LoopFuelBits).results

QuadtreeNew ==
    [nodes |-> (<<>> :> QuadtreeNodeNew(0, RgbMax * Scale, 0, RgbMax * Scale)),
     totalImages |-> 0, maxDepth |-> 0]

QuadtreeInsert(tree, img) ==
    LET tr == insertIterative(tree.nodes, tree.maxDepth, img)
    IN  [nodes |-> tr.nodes, totalImages |-> tree.totalImages + 1, maxDepth |-> tr.maxDepth]

QuadtreeEduInsert(tree, img) ==
    LET tr == EduInsertIterative(tree.nodes, tree.maxDepth, img)
    IN  [nodes |-> tr.nodes, totalImages |-> tree.totalImages + 1, maxDepth |-> tr.maxDepth]

QuadtreeFindSimilar(tree, query, threshold) ==
    SortByDistance(query, searchIterative(tree.nodes, query, threshold))

\* ----------------------------------------------------------------- state
VARIABLES
    images,       \* LinearSearch::images
    grid,         \* HashSearch::grid (cell key -> bucket), one instance per cell size
    dynGrid,      \* HashDynamicSearch::grid, one instance per cell size
    hdrGrid,      \* HashSearch::grid of hash_search.h, one instance per cell size
    octree,       \* OctreeSearch: root and the nodes under it, totalImages, maxDepth
    quadtree,     \* QuadtreeIterativeSearch of quadtree.h
    quadtreeEdu,  \* QuadtreeIterativeSearch of the educational program
    ret           \* the last findSimilar call and the list it returned

structures == <<images, grid, dynGrid, hdrGrid, octree, quadtree, quadtreeEdu>>

\* the state of the experiments that do not run on the seven structures above
VARIABLES
    pair,         \* two instances of each structure, fed the same records in two orders
    found,        \* the last findSimilar call on both instances and the two lists
    oh,           \* OctreeSearch of octree_search.h, its insert call in progress
    oit,          \* OctreeIterativeSearch: nodes, totalImages, maxDepth
    oitRet,       \* the last findSimilar call on it and the list it returned
    loc,          \* OctreeSearch and QuadtreeSearch of the local-images benchmark
    sb,           \* LinearSearch and HashSearch of the scalable benchmark
    hm,           \* OctreeSearch and QuadtreeSearch of the 100M benchmark
    pr,           \* one call of nodeIntersectsQueryRadius and its result
    hs,           \* a HashSearch of hash_search.h and its last call
    rx,           \* the OctreeSearch with relaxed pruning and its last call
    ri,           \* the four trees of the recursion-vs-iteration benchmark
    cl            \* a reused and a fresh instance of each structure with clear()

\* no findSimilar call made yet
NoRet == [db |-> "none", cs |-> 0, q |-> NoPoint, t |-> 0, again |-> FALSE,
          outcome |-> "none", list |-> <<>>]

NoPair == [todoA |-> <<>>, todoB |-> <<>>, a |-> <<>>, b |-> <<>>]

NoFound == [db |-> "none", cs |-> 0, q |-> NoPoint, t |-> 0, a |-> <<>>, b |-> <<>>]

OrderIdle == pair = NoPair /\ found = NoFound

\* the octree and the activations of insertRecursive not yet returned, the
\* innermost last; status is "idle" between insert calls
OhNew ==
    [nodes |-> OctreeNew.nodes, totalImages |-> 0, maxDepth |-> 0, stack |-> <<>>,
     status |-> "idle"]

OhIdle == oh = OhNew

OitIdle == oit = OctreeNew /\ oitRet = NoRet

\* OctreeNode(0, 255, 0, 255, 0, 255) / QuadtreeNode(0, 255, 0, 255) of the
\* local-images benchmark: image is a pointer into imageStorage (NullPtr
\* when unset); a quadtree node has no B range, its minB and maxB stay 0
NullPtr == [block |-> 0, idx |-> 0]

LocNodeNew(minR, maxR, minG, maxG, minB, maxB) ==
    [image |-> NullPtr, minR |-> minR, maxR |-> maxR, minG |-> minG, maxG |-> maxG,
     minB |-> minB, maxB |-> maxB]

\* a structure as its constructor leaves it: the root, imageCount(0) and an
\* empty imageStorage, which owns no heap block yet (capacity 0); block
\* numbers the heap blocks imageStorage has owned so far
LocNew(kind) ==
    [nodes |-> (<<>> :> (IF kind = "Octree" THEN LocNodeNew(0, RgbMax, 0, RgbMax, 0, RgbMax)
                         ELSE LocNodeNew(0, RgbMax, 0, RgbMax, 0, 0))),
     imageCount |-> 0, imageStorage |-> <<>>, capacity |-> 0, block |-> 0]

\* OctreeSearch / QuadtreeSearch of the 100M benchmark as constructed: the
\* root over 0..255 on each structured axis; status is "idle" between insert
\* calls and "deeper" once an insert call has gone below the depth explored
HmNew(kind) ==
    [nodes |-> (<<>> :> (IF kind = "Octree"
                         THEN OctreeNodeNew(0, RgbMax * Scale, 0, RgbMax * Scale,
                                            0, RgbMax * Scale)
                         ELSE QuadtreeNodeNew(0, RgbMax * Scale, 0, RgbMax * Scale))),
     totalImages |-> 0, status |-> "idle"]

HmNoRet == [kind |-> "none", q |-> NoPoint, t |-> 0, list |-> <<>>]

\* no call of nodeIntersectsQueryRadius made yet
PrNone == [kind |-> "none", node |-> <<>>, q |-> NoPoint, t |-> 0, result |-> FALSE]

PrIdle == pr = PrNone

\* no call made on the HashSearch yet; maxResults 0 stands for none
HsNoRet == [called |-> FALSE, q |-> NoPoint, t |-> 0, maxResults |-> 0,
            cells |-> <<>>, list |-> <<>>]

HsIdle == hs = [grid |-> <<>>, images |-> <<>>, ret |-> HsNoRet]

RxNoRet == [called |-> FALSE, q |-> NoPoint, t |-> 0, list |-> <<>>]

RxIdle == rx = [nodes |-> OctreeNew.nodes, totalImages |-> 0, maxDepth |-> 0,
                images |-> <<>>, ret |-> RxNoRet]

RiNoRet == [called |-> FALSE, q |-> NoPoint, t |-> 0,
            QuadRec |-> <<>>, QuadIter |-> <<>>, OctRec |-> <<>>, OctIter |-> <<>>]

\* QuadtreeRecursivo, QuadtreeIterativo, OctreeRecursivo and OctreeIterativo
\* as constructed: one leaf for [0,255]^2 or [0,255]^3
RiIdle == ri = [QuadRec |-> QuadtreeNew.nodes, QuadIter |-> QuadtreeNew.nodes,
                OctRec |-> OctreeNew.nodes, OctIter |-> OctreeNew.nodes,
                totalImages |-> 0, ret |-> RiNoRet]

ClNoRet == [called |-> FALSE, q |-> NoPoint, t |-> 0,
            reused |-> [linear |-> <<>>, hash |-> <<>>, outcome |-> "none", octree |-> <<>>],
            fresh |-> [linear |-> <<>>, hash |-> <<>>, outcome |-> "none", octree |-> <<>>]]

\* a LinearSearch, a HashSearch and an OctreeSearch as constructed
ClNew == [linear |-> <<>>, hash |-> <<>>, octree |-> LocNew("Octree")]

\* phase: "old" while the earlier dataset goes into the reused instances,
\* "new" once clear() has been called on them
ClIdle == cl = [reused |-> ClNew, fresh |-> ClNew, phase |-> "old", ret |-> ClNoRet]

HmIdle == hm = [Octree |-> HmNew("Octree"), Quadtree |-> HmNew("Quadtree"), ret |-> HmNoRet]

\* the scalable benchmark's LinearSearch (images) and HashSearch (grid,
\* totalImages) as constructed, and no findSimilar call made on them yet
SbNoRet == [called |-> FALSE, q |-> NoPoint, t |-> 0, linear |-> <<>>, hash |-> <<>>]

SbIdle == sb = [images |-> <<>>, grid |-> <<>>, totalImages |-> 0, ret |-> SbNoRet]

LocNoRet == [kind |-> "none", q |-> NoPoint, t |-> 0, outcome |-> "none", list |-> <<>>]

LocIdle == loc = [Octree |-> LocNew("Octree"), Quadtree |-> LocNew("Quadtree"),
                  ret |-> LocNoRet]

others == <<pair, found, oh, oit, oitRet, loc, sb, hm, pr, hs, rx, ri, cl>>

OthersIdle == OrderIdle /\ OhIdle /\ OitIdle /\ LocIdle /\ SbIdle /\ HmIdle /\ PrIdle /\ HsIdle /\ RxIdle /\ RiIdle /\ ClIdle

\* what the steps of one experiment leave alone
orderRest == <<structures, ret, oh, oit, oitRet, loc, sb, hm, pr, hs, rx, ri, cl>>

ohRest == <<structures, ret, pair, found, oit, oitRet, loc, sb, hm, pr, hs, rx, ri, cl>>

oitRest == <<structures, ret, pair, found, oh, loc, sb, hm, pr, hs, rx, ri, cl>>

locRest == <<structures, ret, pair, found, oh, oit, oitRet, sb, hm, pr, hs, rx, ri, cl>>

sbRest == <<structures, ret, pair, found, oh, oit, oitRet, loc, hm, pr, hs, rx, ri, cl>>

hmRest == <<structures, ret, pair, found, oh, oit, oitRet, loc, sb, pr, hs, rx, ri, cl>>

prRest == <<structures, ret, pair, found, oh, oit, oitRet, loc, sb, hm, hs, rx, ri, cl>>

hsRest == <<structures, ret, pair, found, oh, oit, oitRet, loc, sb, hm, pr, rx, ri, cl>>

rxRest == <<structures, ret, pair, found, oh, oit, oitRet, loc, sb, hm, pr, hs, ri, cl>>

riRest == <<structures, ret, pair, found, oh, oit, oitRet, loc, sb, hm, pr, hs, rx, cl>>

clRest == <<structures, ret, pair, found, oh, oit, oitRet, loc, sb, hm, pr, hs, rx, ri>>

vars == <<structures, ret, others>>

\* a call is issued on the built structure, and may then be repeated any
\* number of times; again tells a repeated call from the first one
MayCall(db, cs, q, t) ==
    \/ ret = NoRet
    \/ ret.db = db /\ ret.cs = cs /\ ret.q = q /\ ret.t = t

\* a plausible slip: a query that matches nothing reported as a failure
ReturnedEmptyIsError(db, cs, q, t, list) ==
    [db |-> db, cs |-> cs, q |-> q, t |-> t, again |-> ret # NoRet,
     outcome |-> IF list = <<>> THEN "error" ELSE "list", list |-> list]

\* what a findSimilar call hands back: no findSimilar of the repository has
\* a throw statement or an error return, the outcome is always the list
Returned(db, cs, q, t, list) ==
    [db |-> db, cs |-> cs, q |-> q, t |-> t, again |-> ret # NoRet,
     outcome |-> "list", list |-> list]

\* the seven structures as their constructors leave them, nothing returned yet
Constructed ==
    /\ images = <<>>
    /\ grid = [cs \in CellSizes |-> <<>>]
    /\ dynGrid = [cs \in CellSizes |-> <<>>]
    /\ hdrGrid = [cs \in CellSizes |-> <<>>]
    /\ octree = OctreeNew
    /\ quadtree = QuadtreeNew
    /\ quadtreeEdu = QuadtreeNew
    /\ ret = NoRet

Init ==
    /\ Constructed
    /\ OthersIdle

\* the harness builds first and queries afterwards: it inserts record number
\* Len(images)+1 of the dataset into every structure
Insert(p) ==
    /\ ret = NoRet
    /\ Len(images) < MaxInserts
    /\ LET img == [id |-> Len(images) + 1, r |-> p.r, g |-> p.g, b |-> p.b]
       IN  /\ images' = LinearInsert(images, img)
           /\ grid' = [cs \in CellSizes |-> HashInsert(grid[cs], img, cs)]
           /\ dynGrid' = [cs \in CellSizes |-> HashInsert(dynGrid[cs], img, cs)]
           /\ hdrGrid' = [cs \in CellSizes |-> HashInsert(hdrGrid[cs], img, cs)]
           /\ octree' = OctreeInsert(octree, img)
           /\ quadtree' = QuadtreeInsert(quadtree, img)
           /\ quadtreeEdu' = QuadtreeEduInsert(quadtreeEdu, img)
    /\ ret' = NoRet
    /\ UNCHANGED others

QueryLinear(q, t) ==
    /\ MayCall("Linear", 0, q, t)
    /\ ret' = Returned("Linear", 0, q, t, LinearFindSimilar(images, q, t))
    /\ UNCHANGED <<structures, others>>

QueryHash(cs, q, t) ==
    /\ MayCall("Hash", cs, q, t)
    /\ LET out == HashFindSimilar(grid[cs], cs, q, t)
       IN  /\ grid' = [grid EXCEPT ![cs] = out.grid]
           /\ ret' = Returned("Hash", cs, q, t, out.results)
    /\ UNCHANGED <<images, dynGrid, hdrGrid, octree, quadtree, quadtreeEdu>>
    /\ UNCHANGED others

QueryHashDynamic(cs, q, t) ==
    /\ MayCall("HashDynamic", cs, q, t)
    /\ LET out == DynFindSimilar(dynGrid[cs], cs, q, t)
       IN  /\ dynGrid' = [dynGrid EXCEPT ![cs] = out.grid]
           /\ ret' = Returned("HashDynamic", cs, q, t, out.results)
    /\ UNCHANGED <<images, grid, hdrGrid, octree, quadtree, quadtreeEdu>>
    /\ UNCHANGED others

QueryHashHdr(cs, q, t) ==
    /\ MayCall("HashHdr", cs, q, t)
    /\ LET out == HdrFindSimilar(hdrGrid[cs], cs, q, t)
       IN  /\ hdrGrid' = [hdrGrid EXCEPT ![cs] = out.grid]
           /\ ret' = Returned("HashHdr", cs, q, t, out.results)
    /\ UNCHANGED <<images, grid, dynGrid, octree, quadtree, quadtreeEdu>>
    /\ UNCHANGED others

\* searchRecursive is a const method over const nodes
QueryOctree(q, t) ==
    /\ MayCall("Octree", 0, q, t)
    /\ ret' = Returned("Octree", 0, q, t, OctreeFindSimilar(octree, q, t))
    /\ UNCHANGED <<structures, others>>

QueryQuadtree(q, t) ==
    /\ MayCall("Quadtree", 0, q, t)
    /\ ret' = Returned("Quadtree", 0, q, t, QuadtreeFindSimilar(quadtree, q, t))
    /\ UNCHANGED <<structures, others>>

QueryQuadtreeEdu(q, t) ==
    /\ MayCall("QuadtreeEdu", 0, q, t)
    /\ ret' = Returned("QuadtreeEdu", 0, q, t, QuadtreeFindSimilar(quadtreeEdu, q, t))
    /\ UNCHANGED <<structures, others>>

Next ==
    \/ \E p \in Points : Insert(p)
    \/ \E q \in Queries, t \in TreeThresholds : QueryLinear(q, t)
    \/ \E cs \in CellSizes, q \in Queries, t \in Thresholds : QueryHash(cs, q, t)
    \/ \E cs \in CellSizes, q \in Queries, t \in Thresholds : QueryHashDynamic(cs, q, t)
    \/ \E cs \in CellSizes, q \in Queries, t \in Thresholds : QueryHashHdr(cs, q, t)
    \/ \E q \in Queries, t \in TreeThresholds : QueryOctree(q, t)
    \/ \E q \in Queries, t \in TreeThresholds : QueryQuadtree(q, t)
    \/ \E q \in Queries, t \in TreeThresholds : QueryQuadtreeEdu(q, t)

Spec == Init /\ [][Next]_vars

\* ------------------------------------------------------------ observers
Ids(s) == { s[i].id : i \in DOMAIN s }

IsSortedFor(q, s) ==
    \A i \in 1..(Len(s) - 1) : LimbLeq(distSq(q, s[i]), distSq(q, s[i + 1]))

\* number of entries of s carrying record id n
Count(s, n) == Cardinality({ i \in DOMAIN s : s[i].id = n })

\* the records of the dataset within threshold of the query
TrueMatches(q, t) == { images[i].id : i \in { j \in DOMAIN images : Within(q, images[j], t) } }

SamePoint(a, b) == a.r = b.r /\ a.g = b.g /\ a.b = b.b

\* ------------------------------------------------------------------ claims

\* C1: HashSearch.findSimilar returns exactly the inserted records within
\* threshold of the query, the record-id set LinearSearch.findSimilar
\* returns: no record is missed by the cell radius, none is added.
C1_HashMatchesLinear ==
    ret.db = "Hash" =>
        /\ Ids(ret.list) = TrueMatches(ret.q, ret.t)
        /\ Ids(ret.list) = Ids(LinearFindSimilar(images, ret.q, ret.t))

\* a returned record sits in another cell than the query, and a record of
\* the dataset is left out
C1_Witness ==
    /\ ret.db = "Hash"
    /\ \E i \in DOMAIN ret.list : imgCellKey(ret.list[i], ret.cs) # imgCellKey(ret.q, ret.cs)
    /\ Len(ret.list) < Len(images)

C3_QuadtreeNeverUnderReports ==
    ret.db = "Quadtree" => TrueMatches(ret.q, ret.t) \subseteq Ids(ret.list)

\* a cascaded split has happened, a record is returned, another is not
C3_Witness ==
    /\ ret.db = "Quadtree"
    /\ quadtree.maxDepth >= 2
    /\ TrueMatches(ret.q, ret.t) # {}
    /\ \E i \in DOMAIN images : images[i].id \notin Ids(ret.list)

\* C4: the list returned by findSimilar of LinearSearch, HashSearch,
\* OctreeSearch, the educational QuadtreeIterativeSearch and HashSearch of
\* hash_search.h is sorted ascending by distance to the query.
C4_ResultSorted ==
    ret.db \in {"Linear", "Hash", "Octree", "QuadtreeEdu", "HashHdr"} =>
        IsSortedFor(ret.q, ret.list)

\* the nearest record was inserted after a farther one that is returned too
C4_Witness ==
    /\ ret.db \in {"Linear", "Hash", "Octree", "QuadtreeEdu", "HashHdr"}
    /\ \E i, j \in DOMAIN images :
          /\ i < j
          /\ Closer(ret.q, images[j], images[i])
          /\ {images[i].id, images[j].id} \subseteq Ids(ret.list)

\* C5: the threshold is inclusive in every structure: a stored record at
\* distance exactly threshold from the query is returned.
C5_BoundaryInclusive ==
    ret.db # "none" =>
        \A i \in DOMAIN images :
            distSq(ret.q, images[i]) = Sq(ret.t) => images[i].id \in Ids(ret.list)

\* a tree call whose record at distance exactly threshold > 0 lies in a
\* leaf whose box is itself at distance exactly threshold
C5_Witness ==
    /\ ret.db = "Octree"
    /\ ret.t > 0
    /\ \E p \in DOMAIN octree.nodes :
          /\ p # <<>>
          /\ OctMinDistSq(octree.nodes[p], ret.q) = Sq(ret.t)
          /\ \E i \in DOMAIN octree.nodes[p].images :
                distSq(ret.q, octree.nodes[p].images[i]) = Sq(ret.t)

\* C6: for QuadtreeIterativeSearch, once more than maxImagesPerNode records
\* are inserted, a query whose threshold covers the whole space returns
\* every inserted record exactly once.
C6_QuadtreeAllExactlyOnce ==
    (/\ ret.db \in {"Quadtree", "QuadtreeEdu"}
     /\ ret.t = WholeSpace
     /\ Len(images) > MaxImagesPerNode) =>
        /\ Len(ret.list) = Len(images)
        /\ \A i \in DOMAIN images : Count(ret.list, images[i].id) = 1

\* the records held by the leaves of a tree, counted per id
StoredCount(nodes, n) ==
    Cardinality({ e \in UNION { { <<p, i>> : i \in DOMAIN nodes[p].images } : p \in DOMAIN nodes } :
                  nodes[e[1]].isLeaf /\ nodes[e[1]].images[e[2]].id = n })

\* C7: in the recursive OctreeSearch a split node's buffer is empty, every
\* record is stored in exactly one leaf under it, and a query covering the
\* whole space returns all inserted records exactly once.
C7_OctreeSplitKeepsRecords ==
    /\ \A p \in DOMAIN octree.nodes :
          ~octree.nodes[p].isLeaf => octree.nodes[p].images = <<>>
    /\ \A i \in DOMAIN images : StoredCount(octree.nodes, images[i].id) = 1
    /\ (ret.db = "Octree" /\ ret.t = WholeSpace) =>
          /\ Len(ret.list) = Len(images)
          /\ \A i \in DOMAIN images : Count(ret.list, images[i].id) = 1

\* the root has split and the whole space is queried
C7_Witness ==
    /\ ret.db = "Octree"
    /\ ret.t = WholeSpace
    /\ ~octree.nodes[<<>>].isLeaf
    /\ Len(images) > MaxImagesPerNode

C9_DynamicSameAsCube ==
    ret.db \in {"HashDynamic", "HashHdr"} =>
        \A i \in DOMAIN images :
            Count(ret.list, images[i].id)
                = Count(HashFindSimilar(grid[ret.cs], ret.cs, ret.q, ret.t).results,
                        images[i].id)

\* C10: a query does not modify the structure (stored records, hash cells,
\* tree shape), and repeating it returns the identical ordered list.
C10_QueryIdempotent ==
    [][ret'.db # "none" =>
          /\ structures' = structures
          /\ ret.db # "none" => ret'.list = ret.list]_vars

\* a call that found something has been repeated
C10_Witness ==
    /\ ret.again
    /\ ret.list # <<>>

\* ------------------------------------------ one dataset, two insert orders
\* an instance of each structure of the educational program
OrderNew ==
    [grid |-> [cs \in CellSizes |-> <<>>], octree |-> OctreeNew, quadtreeEdu |-> QuadtreeNew]

OrderInsertInto(db, img) ==
    [grid |-> [cs \in CellSizes |-> HashInsert(db.grid[cs], img, cs)],
     octree |-> OctreeInsert(db.octree, img),
     quadtreeEdu |-> QuadtreeEduInsert(db.quadtreeEdu, img)]

\* the records of a dataset in the order of their ids
Dataset(pts) == [i \in DOMAIN pts |-> [id |-> i, r |-> pts[i].r, g |-> pts[i].g, b |-> pts[i].b]]

\* the exchange of the first two records and the move of the first record to
\* the end generate every permutation; equality of the id sets carries over
\* to compositions
SwapFirstTwo(s) == <<s[2], s[1]>> \o SubSeq(s, 3, Len(s))

RotateLeft(s) == Tail(s) \o <<Head(s)>>

Reorderings(s) == { SwapFirstTwo(s), RotateLeft(s) }

OrderInit ==
    /\ Constructed
    /\ \E n \in 2..MaxInserts : \E pts \in [1..n -> Points] :
          \E other \in Reorderings(Dataset(pts)) :
             pair = [todoA |-> Dataset(pts), todoB |-> other, a |-> OrderNew, b |-> OrderNew]
    /\ found = NoFound
    /\ OhIdle
    /\ OitIdle
    /\ LocIdle
    /\ SbIdle
    /\ HmIdle
    /\ PrIdle
    /\ HsIdle
    /\ RxIdle
    /\ RiIdle
    /\ ClIdle

\* the next insert call on each of the two instances
OrderInsert ==
    /\ pair.todoA # <<>>
    /\ pair' = [todoA |-> Tail(pair.todoA), todoB |-> Tail(pair.todoB),
                a |-> OrderInsertInto(pair.a, Head(pair.todoA)),
                b |-> OrderInsertInto(pair.b, Head(pair.todoB))]
    /\ UNCHANGED <<found, orderRest>>

OrderMayQuery == pair.todoA = <<>> /\ found = NoFound

OrderQueryHash(cs, q, t) ==
    /\ OrderMayQuery
    /\ found' = [db |-> "Hash", cs |-> cs, q |-> q, t |-> t,
                 a |-> HashFindSimilar(pair.a.grid[cs], cs, q, t).results,
                 b |-> HashFindSimilar(pair.b.grid[cs], cs, q, t).results]
    /\ UNCHANGED <<pair, orderRest>>

OrderQueryOctree(q, t) ==
    /\ OrderMayQuery
    /\ found' = [db |-> "Octree", cs |-> 0, q |-> q, t |-> t,
                 a |-> OctreeFindSimilar(pair.a.octree, q, t),
                 b |-> OctreeFindSimilar(pair.b.octree, q, t)]
    /\ UNCHANGED <<pair, orderRest>>

OrderQueryQuadtree(q, t) ==
    /\ OrderMayQuery
    /\ found' = [db |-> "QuadtreeEdu", cs |-> 0, q |-> q, t |-> t,
                 a |-> QuadtreeFindSimilar(pair.a.quadtreeEdu, q, t),
                 b |-> QuadtreeFindSimilar(pair.b.quadtreeEdu, q, t)]
    /\ UNCHANGED <<pair, orderRest>>

OrderNext ==
    \/ OrderInsert
    \/ \E cs \in CellSizes, q \in Queries, t \in Thresholds : OrderQueryHash(cs, q, t)
    \/ \E q \in Queries, t \in TreeThresholds : OrderQueryOctree(q, t)
    \/ \E q \in Queries, t \in TreeThresholds : OrderQueryQuadtree(q, t)

SpecOrder == OrderInit /\ [][OrderNext]_vars

HdrOctInsertStep(st) ==
    LET f == st.stack[Len(st.stack)]
        rest == SubSeq(st.stack, 1, Len(st.stack) - 1)
        p == f.p
        depth == Len(p)
        node == st.nodes[p]
    IN  IF f.i = 0
        THEN LET md == IF depth > st.maxDepth THEN depth ELSE st.maxDepth
             IN  IF node.isLeaf
                 THEN IF Len(node.images) + 1 > MaxImagesPerNode
                      THEN [nodes |-> OctCreateChildren(
                                          [st.nodes EXCEPT ![p].images = Append(@, f.img)], p),
                            maxDepth |-> md,
                            stack |-> Append(rest, OctFrame(p, f.img, 1))]
                      ELSE [nodes |-> [st.nodes EXCEPT ![p].images = Append(@, f.img)],
                            maxDepth |-> md,
                            stack |-> rest]
                 ELSE [nodes |-> st.nodes,
                       maxDepth |-> md,
                       stack |-> Append(rest, OctFrame(Append(p, OctGetChildIndex(node, f.img)),
                                                       f.img, 0))]
        ELSE IF f.i > Len(node.images)
             THEN [nodes |-> OctClearBuffer(st.nodes, p),
                   maxDepth |-> st.maxDepth,
                   stack |-> rest]
             ELSE LET existingImg == node.images[f.i]
                      childIdx == OctGetChildIndex(node, existingImg)
                  IN  [nodes |-> st.nodes,
                       maxDepth |-> st.maxDepth,
                       stack |-> rest \o <<OctFrame(p, f.img, f.i + 1),
                                           OctFrame(Append(p, childIdx), existingImg, 0)>>]

\* the activation on top is about to subdivide a leaf at the last depth the
\* model represents
OhSplitsBelow ==
    LET f == oh.stack[Len(oh.stack)]
    IN  /\ f.i = 0
        /\ Len(f.p) >= DepthExplored
        /\ oh.nodes[f.p].isLeaf
        /\ Len(oh.nodes[f.p].images) + 1 > MaxImagesPerNode

OhInit ==
    /\ Constructed
    /\ OrderIdle
    /\ OhIdle
    /\ OitIdle
    /\ LocIdle
    /\ SbIdle
    /\ HmIdle
    /\ PrIdle
    /\ HsIdle
    /\ RxIdle
    /\ RiIdle
    /\ ClIdle

\* insert(img) is called: insertRecursive(root.get(), img)
OhInsert(p) ==
    /\ oh.status = "idle"
    /\ oh.totalImages < MaxInserts
    /\ oh' = [oh EXCEPT !.status = "running",
                        !.stack = <<OctFrame(<<>>, [id |-> oh.totalImages + 1,
                                                    r |-> p.r, g |-> p.g, b |-> p.b], 0)>>]
    /\ UNCHANGED ohRest

\* insertRecursive advances by one activation; when the outermost one has
\* returned, insert counts the record and returns
OhStep ==
    /\ oh.status = "running"
    /\ IF OhSplitsBelow
       THEN oh' = [oh EXCEPT !.status = "deeper"]
       ELSE LET st == HdrOctInsertStep([nodes |-> oh.nodes, maxDepth |-> oh.maxDepth,
                                        stack |-> oh.stack])
            IN  oh' = [nodes |-> st.nodes, maxDepth |-> st.maxDepth, stack |-> st.stack,
                       totalImages |-> IF st.stack = <<>> THEN oh.totalImages + 1
                                       ELSE oh.totalImages,
                       status |-> IF st.stack = <<>> THEN "idle" ELSE "running"]
    /\ UNCHANGED ohRest

OhNext ==
    \/ \E p \in Points : OhInsert(p)
    \/ OhStep

SpecOctHdr == OhInit /\ [][OhNext]_vars

\* C12: OctreeSearch::insert of octree_search.h terminates for every record:
\* subdivision stops at a depth ceiling and the leaf there keeps accepting
\* records, so no insert call goes on subdividing below the depth explored.
C12_SubdivisionStops == oh.status # "deeper"


\* ------------------------------------------------ OctreeIterativeSearch
\* the box createChildren of octree_iterative.h gives children[i]: the
\* children of the upper G half (2, 3, 6, 7) are given minG..maxG, and
\* children[7] minB..maxB
OitChildBox(node, i) ==
    LET midR == (node.minR + node.maxR) \div 2
        midG == (node.minG + node.maxG) \div 2
        midB == (node.minB + node.maxB) \div 2
    IN  OctreeNodeNew(IF i \div 4 = 0 THEN node.minR ELSE midR,
                      IF i \div 4 = 0 THEN midR ELSE node.maxR,
                      node.minG,
                      IF (i \div 2) % 2 = 0 THEN midG ELSE node.maxG,
                      IF i % 2 = 0 \/ i = 7 THEN node.minB ELSE midB,
                      IF i % 2 = 0 THEN midB ELSE node.maxB)

OitCreateChildren(nodes, p) ==
    [q \in DOMAIN nodes \cup { Append(p, i) : i \in 0..7 } |->
        IF q = p THEN [nodes[p] EXCEPT !.isLeaf = FALSE]
        ELSE IF q \in DOMAIN nodes THEN nodes[q]
        ELSE OitChildBox(nodes[p], q[Len(q)])]

\* `while (!currentNode->isLeaf)`: the leaf under p on img's way down
RECURSIVE OitLeafFor(_, _, _)
OitLeafFor(nodes, p, img) ==
    IF nodes[p].isLeaf THEN p
    ELSE OitLeafFor(nodes, Append(p, OctGetChildIndex(nodes[p], img)), img)

\* createChildren on the leaf at p and images.clear()
OitSplit(nodes, p) ==
    [OitCreateChildren(nodes, p) EXCEPT ![p].images = <<>>]

\* one entry <<child, image, depth + 1>> per image, the last one on top
OitEntries(nodes, p, imgs, depth) ==
    [k \in 1..Len(imgs) |->
        <<Append(p, OctGetChildIndex(nodes[p], imgs[k])), imgs[k], depth + 1>>]


\* One pass of the loop of insertIntoChild.  st = [nodes, maxDepth,
\* nodeStack, redistribStack, img, parent, todo]; nodeStack holds <<path,
\* depth>> pairs and redistribStack <<path, image, depth>> triples, the top
\* last.  Between two calls it is the `for (existingImg :
\* imagesToRedistribute)` loop of insertIterative that makes the next call
\* (todo = the images it has not reached yet).
OitIntoChildStep(st) ==
    IF st.redistribStack # <<>>
    THEN \* a pending redistribution: its node goes on nodeStack, the image
         \* goes down to its leaf
         LET top == st.redistribStack[Len(st.redistribStack)]
             rest == SubSeq(st.redistribStack, 1, Len(st.redistribStack) - 1)
             leaf == OitLeafFor(st.nodes, top[1], top[2])
             currentDepth == top[3] + (Len(leaf) - Len(top[1]))
             imgs == Append(st.nodes[leaf].images, top[2])
             md == IF currentDepth > st.maxDepth THEN currentDepth ELSE st.maxDepth
             pushed == Append(st.nodeStack, <<top[1], top[3]>>)
         IN  IF Len(imgs) > MaxImagesPerNode /\ currentDepth < OctreeIterativeDepthLimit
             THEN [st EXCEPT !.nodes = OitSplit(st.nodes, leaf),
                             !.maxDepth = md,
                             !.nodeStack = pushed,
                             !.redistribStack = rest \o OitEntries(st.nodes, leaf, imgs,
                                                                   currentDepth)]
             ELSE [st EXCEPT !.nodes[leaf].images = imgs,
                             !.maxDepth = md,
                             !.nodeStack = pushed,
                             !.redistribStack = rest]
    ELSE IF st.nodeStack # <<>>
    THEN LET top == st.nodeStack[Len(st.nodeStack)]
             rest == SubSeq(st.nodeStack, 1, Len(st.nodeStack) - 1)
             p == top[1]
             depth == top[2]
             node == st.nodes[p]
             imgs == Append(node.images, st.img)
             md == IF depth > st.maxDepth THEN depth ELSE st.maxDepth
         IN  IF node.isLeaf
             THEN IF Len(imgs) > MaxImagesPerNode /\ depth < OctreeIterativeDepthLimit
                  THEN [st EXCEPT !.nodes = OitSplit(st.nodes, p),
                                  !.maxDepth = md,
                                  !.nodeStack = rest,
                                  !.redistribStack = OitEntries(st.nodes, p, imgs, depth)]
                  ELSE [st EXCEPT !.nodes[p].images = imgs,
                                  !.maxDepth = md,
                                  !.nodeStack = rest]
             ELSE [st EXCEPT !.maxDepth = md,
                             !.nodeStack = Append(rest,
                                 <<Append(p, OctGetChildIndex(node, st.img)), depth + 1>>)]
    ELSE \* insertIntoChild(children[childIdx], existingImg, currentDepth + 1)
         LET existingImg == Head(st.todo)
             childIdx == OctGetChildIndex(st.nodes[st.parent], existingImg)
         IN  [st EXCEPT !.nodeStack = << <<Append(st.parent, childIdx), Len(st.parent) + 1>> >>,
                        !.img = existingImg,
                        !.todo = Tail(st.todo)]

RECURSIVE OitInsertRun(_, _)
OitInsertRun(st, k) ==
    IF st.redistribStack = <<>> /\ st.nodeStack = <<>> /\ st.todo = <<>> THEN st
    ELSE IF k = 0 THEN OitIntoChildStep(st)
    ELSE OitInsertRun(OitInsertRun(st, k - 1), k - 1)

\* insertIterative: down to the leaf, push_back, and a split whenever the
\* leaf exceeds maxImagesPerNode, whatever its depth; returns [nodes, maxDepth]
OitInsertIterative(nodes, maxDepth, img) ==
    LET p == OitLeafFor(nodes, <<>>, img)
        currentDepth == Len(p)
        md == IF currentDepth > maxDepth THEN currentDepth ELSE maxDepth
        imgs == Append(nodes[p].images, img)
    IN  IF Len(imgs) > MaxImagesPerNode
        THEN LET out == OitInsertRun(
                            [nodes |-> OitSplit(nodes, p), maxDepth |-> md,
                             nodeStack |-> <<>>, redistribStack |-> <<>>, img |-> img,
                             parent |-> p, todo |-> imgs], LoopFuelBits)
             IN  [nodes |-> out.nodes, maxDepth |-> out.maxDepth]
        ELSE [nodes |-> [nodes EXCEPT ![p].images = imgs], maxDepth |-> md]

\* insert: insertIterative(img); totalImages++
OitTreeInsert(tree, img) ==
    LET tr == OitInsertIterative(tree.nodes, tree.maxDepth, img)
    IN  [nodes |-> tr.nodes, totalImages |-> tree.totalImages + 1, maxDepth |-> tr.maxDepth]

\* one pass of the loop of searchIterative; st = [queue, results], the
\* front of the queue first
OitSearchStep(nodes, query, threshold, st) ==
    LET p == Head(st.queue)
        rest == Tail(st.queue)
    IN  IF ~OctNodeIntersectsQueryRadius(nodes[p], query, threshold)
        THEN [queue |-> rest, results |-> st.results]
        ELSE IF nodes[p].isLeaf
        THEN [queue |-> rest,
              results |-> st.results \o Matching(query, threshold, nodes[p].images)]
        ELSE [queue |-> rest \o [k \in 1..8 |-> Append(p, k - 1)],
              results |-> st.results]

RECURSIVE OitSearchRun(_, _, _, _, _)
OitSearchRun(nodes, query, threshold, st, k) ==
    IF st.queue = <<>> THEN st
    ELSE IF k = 0 THEN OitSearchStep(nodes, query, threshold, st)
    ELSE OitSearchRun(nodes, query, threshold,
                      OitSearchRun(nodes, query, threshold, st, k - 1), k - 1)

OitSearchIterative(nodes, query, threshold) ==
    OitSearchRun(nodes, query, threshold,
                 [queue |-> << <<>> >>, results |-> <<>>], LoopFuelBits).results

OitFindSimilar(tree, query, threshold) ==
    SortByDistance(query, OitSearchIterative(tree.nodes, query, threshold))

OitInit ==
    /\ Constructed
    /\ OrderIdle
    /\ OhIdle
    /\ OitIdle
    /\ LocIdle
    /\ SbIdle
    /\ HmIdle
    /\ PrIdle
    /\ HsIdle
    /\ RxIdle
    /\ RiIdle
    /\ ClIdle

OitInsert(p) ==
    /\ oitRet = NoRet
    /\ oit.totalImages < MaxInserts
    /\ oit' = OitTreeInsert(oit, [id |-> oit.totalImages + 1, r |-> p.r, g |-> p.g, b |-> p.b])
    /\ UNCHANGED <<oitRet, oitRest>>

OitQuery(q, t) ==
    /\ oitRet = NoRet
    /\ oitRet' = [db |-> "OctreeIterative", cs |-> 0, q |-> q, t |-> t, again |-> FALSE,
                  outcome |-> "list", list |-> OitFindSimilar(oit, q, t)]
    /\ UNCHANGED <<oit, oitRest>>

OitNext ==
    \/ \E p \in Points : OitInsert(p)
    \/ \E q \in Queries, t \in TreeThresholds : OitQuery(q, t)

SpecOit == OitInit /\ [][OitNext]_vars

\* C13: in OctreeIterativeSearch the depth ceiling of 10 is hard: no node
\* exists below depth 10 and the maxDepth statistic never exceeds 10,
\* whichever of insertIterative and insertIntoChild sees the overflow.
C13_DepthCeilingHard ==
    /\ \A p \in DOMAIN oit.nodes : Len(p) <= OctreeIterativeDepthLimit
    /\ oit.maxDepth <= OctreeIterativeDepthLimit

\* C14: in OctreeIterativeSearch the count of stored records is exact: after
\* n insert calls totalImages = n and the leaf buffers hold n records, each
\* inserted record once.
C14_StoredCountExact ==
    \A n \in 1..oit.totalImages : StoredCount(oit.nodes, n) = 1


\* ------------------------------------------------- negative thresholds
\* thresholds below zero: -0.5, -20 and -60 (the last two give a negative
\* cell radius for both cell sizes)
NegThresholds == { H(-1), H(-40), H(-120) }

\* the operations of Next, every query with a threshold below zero
NegNext ==
    \/ \E p \in Points : Insert(p)
    \/ \E q \in Queries, t \in NegThresholds : QueryLinear(q, t)
    \/ \E cs \in CellSizes, q \in Queries, t \in NegThresholds : QueryHash(cs, q, t)
    \/ \E cs \in CellSizes, q \in Queries, t \in NegThresholds : QueryHashDynamic(cs, q, t)
    \/ \E cs \in CellSizes, q \in Queries, t \in NegThresholds : QueryHashHdr(cs, q, t)
    \/ \E q \in Queries, t \in NegThresholds : QueryOctree(q, t)
    \/ \E q \in Queries, t \in NegThresholds : QueryQuadtree(q, t)
    \/ \E q \in Queries, t \in NegThresholds : QueryQuadtreeEdu(q, t)

SpecNeg == Init /\ [][NegNext]_vars

\* C15: a query with a negative threshold is rejected with an error by
\* every structure: no findSimilar call with threshold < 0 completes
\* normally and hands back a result list.
C15_NegativeThresholdRejected == ret.t < 0 => ret.outcome = "error"

\* ------------------------------------------------------ empty structure
\* C16: on a structure into which nothing has been inserted, findSimilar
\* with any query point and any threshold >= 0 returns an empty list and
\* signals no error.
C16_EmptyStructureEmptyList ==
    (ret.db # "none" /\ images = <<>> /\ ret.t >= 0) =>
        ret.list = <<>> /\ ret.outcome = "list"

\* a whole-space query of the freshly constructed octree has returned
C16_Witness ==
    /\ images = <<>>
    /\ ret.db = "Octree"
    /\ ret.t = WholeSpace
    /\ ret.outcome = "list"

\* ------------------------- OctreeSearch / QuadtreeSearch, local images
\* Image of this benchmark has int r, g, b; filename tells the records apart
LocPt(r, g, b) == [r |-> r, g |-> g, b |-> b]

LocPoints == { LocPt(0, 0, 0), LocPt(1, 1, 1), LocPt(10, 10, 10), LocPt(10, 10, 200),
               LocPt(200, 10, 10) }

LocQueries == { LocPt(10, 10, 10), LocPt(0, 0, 1) }

\* a threshold no smaller than the diagonal of the colour cube
LocWholeSpace == 442

LocThresholds == { 0, 20, LocWholeSpace }

\* what a read through a dangling pointer may find in place of the record
LocGarbage == [r |-> 77, g |-> 77, b |-> 77, filename |-> 0]

\* img.distanceTo(query) <= threshold on int coordinates
LocWithin(img, query, threshold) ==
    /\ threshold >= 0
    /\ (img.r - query.r) * (img.r - query.r) + (img.g - query.g) * (img.g - query.g)
         + (img.b - query.b) * (img.b - query.b) <= threshold * threshold

\* getChildIndex: int midpoints, strict comparisons
LocGetChildIndex(kind, node, img) ==
    LET midR == (node.minR + node.maxR) \div 2
        midG == (node.minG + node.maxG) \div 2
        midB == (node.minB + node.maxB) \div 2
    IN  IF kind = "Octree"
        THEN (IF img.r > midR THEN 4 ELSE 0) + (IF img.g > midG THEN 2 ELSE 0)
               + (IF img.b > midB THEN 1 ELSE 0)
        ELSE (IF img.r > midR THEN 2 ELSE 0) + (IF img.g > midG THEN 1 ELSE 0)

\* the first test of insertRecursive: the node is a terminal cell
LocTerminal(kind, node) ==
    IF kind = "Octree"
    THEN /\ node.maxR - node.minR <= 1
         /\ node.maxG - node.minG <= 1
         /\ node.maxB - node.minB <= 1
    ELSE \/ node.maxR - node.minR <= 1 /\ node.maxG - node.minG <= 1
         \/ node.maxR <= node.minR
         \/ node.maxG <= node.minG

\* the box of the child insertRecursive creates for childIndex
LocChildBox(kind, node, childIndex) ==
    LET midR == (node.minR + node.maxR) \div 2
        midG == (node.minG + node.maxG) \div 2
        midB == (node.minB + node.maxB) \div 2
    IN  IF kind = "Octree"
        THEN LocNodeNew(IF childIndex \div 4 = 1 THEN midR + 1 ELSE node.minR,
                        IF childIndex \div 4 = 1 THEN node.maxR ELSE midR,
                        IF (childIndex \div 2) % 2 = 1 THEN midG + 1 ELSE node.minG,
                        IF (childIndex \div 2) % 2 = 1 THEN node.maxG ELSE midG,
                        IF childIndex % 2 = 1 THEN midB + 1 ELSE node.minB,
                        IF childIndex % 2 = 1 THEN node.maxB ELSE midB)
        ELSE LocNodeNew(IF childIndex \div 2 = 1 THEN midR + 1 ELSE node.minR,
                        IF childIndex \div 2 = 1 THEN node.maxR ELSE midR,
                        IF childIndex % 2 = 1 THEN midG + 1 ELSE node.minG,
                        IF childIndex % 2 = 1 THEN node.maxG ELSE midG,
                        0, 0)

\* `if (!node->image) node->image = img;`: a node keeps the first pointer
LocKeepFirst(nodes, p, ptr) ==
    IF nodes[p].image = NullPtr THEN [nodes EXCEPT ![p].image = ptr] ELSE nodes

\* insertRecursive(node, img), img being the pointer ptr to the record
RECURSIVE LocInsertRecursive(_, _, _, _, _)
LocInsertRecursive(kind, nodes, p, ptr, img) ==
    IF LocTerminal(kind, nodes[p]) THEN LocKeepFirst(nodes, p, ptr)
    ELSE LET q == Append(p, LocGetChildIndex(kind, nodes[p], img))
             box == LocChildBox(kind, nodes[p], q[Len(q)])
         IN  IF q \in DOMAIN nodes THEN LocInsertRecursive(kind, nodes, q, ptr, img)
             ELSE IF kind = "Quadtree" /\ (box.minR >= box.maxR \/ box.minG >= box.maxG)
             THEN LocKeepFirst(nodes, p, ptr)   \* "Safety check to avoid invalid ranges"
             ELSE LocInsertRecursive(kind, nodes @@ (q :> box), q, ptr, img)

\* insert: imageStorage.push_back(image), which moves the records to a new
\* heap block of twice the capacity when the block is full (the pointers
\* into the old block then dangle); insertRecursive(root,
\* &imageStorage.back()); imageCount++
LocInsertInto(kind, st, img) ==
    LET grows == Len(st.imageStorage) = st.capacity
        block == IF grows THEN st.block + 1 ELSE st.block
        ptr == [block |-> block, idx |-> Len(st.imageStorage) + 1]
    IN  [nodes |-> LocInsertRecursive(kind, st.nodes, <<>>, ptr, img),
         imageCount |-> st.imageCount + 1,
         imageStorage |-> Append(st.imageStorage, img),
         capacity |-> IF ~grows THEN st.capacity
                      ELSE IF st.capacity = 0 THEN 1 ELSE 2 * st.capacity,
         block |-> block]

\* the pointers held by nodes into heap blocks imageStorage has released
LocDangling(st) ==
    { st.nodes[p].image : p \in { q \in DOMAIN st.nodes :
          st.nodes[q].image # NullPtr /\ st.nodes[q].image.block # st.block } }

\* *node->image: the record, or for a dangling pointer what read says the
\* released block holds by now ("kept": still the bytes of the record)
LocDeref(st, ptr, read) ==
    IF ptr.block = st.block \/ read[ptr] = "kept" THEN st.imageStorage[ptr.idx]
    ELSE LocGarbage

\* searchRecursive: the node's own image, then the children in index order;
\* no subtree is pruned
RECURSIVE LocSearchRecursive(_, _, _, _, _, _)
LocSearchRecursive(kind, st, p, query, threshold, read) ==
    LET node == st.nodes[p]
        own == IF node.image # NullPtr
                  /\ LocWithin(LocDeref(st, node.image, read), query, threshold)
               THEN << LocDeref(st, node.image, read) >> ELSE <<>>
        below == [k \in 1..8 |->
                     IF Append(p, k - 1) \in DOMAIN st.nodes
                     THEN LocSearchRecursive(kind, st, Append(p, k - 1), query, threshold, read)
                     ELSE <<>>]
    IN  own \o Flatten(below, 1, 8)

LocInit ==
    /\ Constructed
    /\ OrderIdle
    /\ OhIdle
    /\ OitIdle
    /\ LocIdle
    /\ SbIdle
    /\ HmIdle
    /\ PrIdle
    /\ HsIdle
    /\ RxIdle
    /\ RiIdle
    /\ ClIdle

\* the benchmark inserts every image into each structure
LocInsert(p) ==
    /\ loc.ret = LocNoRet
    /\ loc.Octree.imageCount < MaxInserts
    /\ LET img == [r |-> p.r, g |-> p.g, b |-> p.b, filename |-> loc.Octree.imageCount + 1]
       IN  loc' = [loc EXCEPT !.Octree = LocInsertInto("Octree", @, img),
                              !.Quadtree = LocInsertInto("Quadtree", @, img)]
    /\ UNCHANGED locRest

\* search(query, threshold); reading through a dangling pointer is undefined:
\* each such read finds the record or garbage, or the call does not return
LocSearch(kind, q, t) ==
    /\ loc.ret = LocNoRet
    /\ \E read \in [LocDangling(loc[kind]) -> {"kept", "garbage"}], crash \in BOOLEAN :
          /\ crash => LocDangling(loc[kind]) # {}
          /\ loc' = [loc EXCEPT !.ret =
                 [kind |-> kind, q |-> q, t |-> t,
                  outcome |-> IF crash THEN "crash" ELSE "list",
                  list |-> IF crash THEN <<>>
                           ELSE LocSearchRecursive(kind, loc[kind], <<>>, q, t, read)]]
    /\ UNCHANGED locRest

LocNext ==
    \/ \E p \in LocPoints : LocInsert(p)
    \/ \E q \in LocQueries, t \in LocThresholds : LocSearch("Octree", q, t)
    \/ \E q \in LocQueries, t \in LocThresholds : LocSearch("Quadtree", q, t)

SpecLoc == LocInit /\ [][LocNext]_vars

\* C17: OctreeSearch and QuadtreeSearch of the local-images benchmark
\* preserve every inserted record: after n inserts size() is n and a search
\* covering the whole space returns n records, also when records have
\* identical coordinates or the same (r, g) and a different b.
C17_LocalTreesKeepEveryRecord ==
    (loc.ret.outcome = "list" /\ loc.ret.t = LocWholeSpace) =>
        Len(loc.ret.list) = loc[loc.ret.kind].imageCount

\* ----------------------- LinearSearch / HashSearch, scalable benchmark
GRID_SIZE == 32

ScalQueries == Queries \cup { Pt(0, 0, 0), Pt(510, 510, 510) }

\* LinearSearch::findSimilar: the matches in insertion order, no sort
ScalLinearFindSimilar(imgs, query, threshold) == Matching(query, threshold, imgs)

\* (int)(value / CELL_SIZE) with CELL_SIZE = 255.0 / GRID_SIZE: the quotient
\* value * 32 / 255 truncated toward zero (value counts 2^-15 units)
ScalCell(value) ==
    IF value >= 0 THEN (value * GRID_SIZE) \div (RgbMax * Scale)
    ELSE -(((-value) * GRID_SIZE) \div (RgbMax * Scale))

\* std::min(std::max(c, 0), GRID_SIZE - 1)
ScalClamp(c) == IF c < 0 THEN 0 ELSE IF c > GRID_SIZE - 1 THEN GRID_SIZE - 1 ELSE c

\* cellR << 32 | cellG << 16 | cellB: the three indices in bit fields of
\* their own, kept here as the triple of the fields
ScalKey(cellR, cellG, cellB) == <<cellR, cellG, cellB>>

\* getHashKey: each index std::min(cell, GRID_SIZE - 1)
getHashKey(r, g, b) ==
    LET top(c) == IF c > GRID_SIZE - 1 THEN GRID_SIZE - 1 ELSE c
    IN  ScalKey(top(ScalCell(r)), top(ScalCell(g)), top(ScalCell(b)))

\* HashSearch::insert
ScalHashInsert(g, img) ==
    LET key == getHashKey(img.r, img.g, img.b)
    IN  IF key \in DOMAIN g THEN [g EXCEPT ![key] = Append(@, img)]
        ELSE g @@ (key :> <<img>>)

\* HashSearch::findSimilar: the 27 offsets in loop order, each cell index
\* clamped into [0, GRID_SIZE - 1], the matches of every visit appended
ScalHashFindSimilar(g, query, threshold) ==
    LET visit == [n \in 1..27 |->
            LET dr == ((n - 1) \div 9) - 1
                dg == (((n - 1) \div 3) % 3) - 1
                db == ((n - 1) % 3) - 1
                neighborKey == ScalKey(ScalClamp(ScalCell(query.r) + dr),
                                       ScalClamp(ScalCell(query.g) + dg),
                                       ScalClamp(ScalCell(query.b) + db))
            IN  IF neighborKey \in DOMAIN g
                THEN Matching(query, threshold, g[neighborKey]) ELSE <<>>]
    IN  Flatten(visit, 1, 27)

ScalInit ==
    /\ Constructed
    /\ OrderIdle
    /\ OhIdle
    /\ OitIdle
    /\ LocIdle
    /\ SbIdle
    /\ HmIdle
    /\ PrIdle
    /\ HsIdle
    /\ RxIdle
    /\ RiIdle
    /\ ClIdle

\* the benchmark inserts every image into each structure
ScalInsert(p) ==
    /\ sb.ret = SbNoRet
    /\ sb.totalImages < MaxInserts
    /\ LET img == [id |-> sb.totalImages + 1, r |-> p.r, g |-> p.g, b |-> p.b]
       IN  sb' = [sb EXCEPT !.images = Append(@, img),
                            !.grid = ScalHashInsert(@, img),
                            !.totalImages = @ + 1]
    /\ UNCHANGED sbRest

\* the same query put to both structures
ScalQuery(q, t) ==
    /\ sb.ret = SbNoRet
    /\ sb' = [sb EXCEPT !.ret = [called |-> TRUE, q |-> q, t |-> t,
                                 linear |-> ScalLinearFindSimilar(sb.images, q, t),
                                 hash |-> ScalHashFindSimilar(sb.grid, q, t)]]
    /\ UNCHANGED sbRest

ScalNext ==
    \/ \E p \in Points : ScalInsert(p)
    \/ \E q \in ScalQueries, t \in TreeThresholds : ScalQuery(q, t)

SpecScal == ScalInit /\ [][ScalNext]_vars

\* C18: the implementations used by the scalable benchmark return the
\* findSimilar result sorted ascending by distance to the query.
C18_ScalableResultsSorted ==
    sb.ret.called => /\ IsSortedFor(sb.ret.q, sb.ret.linear)
                     /\ IsSortedFor(sb.ret.q, sb.ret.hash)

\* C19: in the scalable benchmark HashSearch finds at most what LinearSearch
\* finds: every record it returns LinearSearch returns too, and it returns
\* no record more often than LinearSearch does.
C19_HashWithinLinear ==
    sb.ret.called =>
        \A n \in 1..sb.totalImages : Count(sb.ret.hash, n) <= Count(sb.ret.linear, n)

\* ------------------------------------------------------- createChildren
\* C20: createChildren gives a node 8 children whose boxes partition the
\* parent's box along the three midpoints: the box of child i is the octant
\* getChildIndex selects with index i, on each axis [min, mid] or [mid, max].
C20_ChildrenAreOctants ==
    \A p \in DOMAIN oit.nodes : ~oit.nodes[p].isLeaf =>
        \A i \in 0..7 :
            LET node == oit.nodes[p]
                child == oit.nodes[Append(p, i)]
                midR == (node.minR + node.maxR) \div 2
                midG == (node.minG + node.maxG) \div 2
                midB == (node.minB + node.maxB) \div 2
            IN  /\ child.minR = (IF i \div 4 = 1 THEN midR ELSE node.minR)
                /\ child.maxR = (IF i \div 4 = 1 THEN node.maxR ELSE midR)
                /\ child.minG = (IF (i \div 2) % 2 = 1 THEN midG ELSE node.minG)
                /\ child.maxG = (IF (i \div 2) % 2 = 1 THEN node.maxG ELSE midG)
                /\ child.minB = (IF i % 2 = 1 THEN midB ELSE node.minB)
                /\ child.maxB = (IF i % 2 = 1 THEN node.maxB ELSE midB)

\* ------------------------------------------------ quadtree containment
\* QuadtreeNode::contains: the closed rectangle on R and G
QuadContains(node, img) ==
    /\ img.r >= node.minR /\ img.r <= node.maxR
    /\ img.g >= node.minG /\ img.g <= node.maxG

\* C21: in QuadtreeIterativeSearch every record stored in a leaf's buffer
\* lies inside that leaf's rectangle on the two structured axes, after any
\* sequence of inserts of records in [0,255]^3.
C21_QuadtreeLeafContainsRecords ==
    /\ \A p \in DOMAIN quadtree.nodes : \A i \in DOMAIN quadtree.nodes[p].images :
          QuadContains(quadtree.nodes[p], quadtree.nodes[p].images[i])
    /\ \A p \in DOMAIN quadtreeEdu.nodes : \A i \in DOMAIN quadtreeEdu.nodes[p].images :
          QuadContains(quadtreeEdu.nodes[p], quadtreeEdu.nodes[p].images[i])

\* --------------------------- OctreeSearch / QuadtreeSearch, 100M benchmark
\* MAX_IMAGES_PER_NODE is 15 (octree) and 30 (quadtree) in the program;
\* BenchMaxImages stands for it
HmGetChildIndex(kind, node, img) ==
    IF kind = "Octree" THEN OctGetChildIndex(node, img) ELSE QuadGetChildIndex(node, img)

\* getChildBounds
HmChildBounds(kind, node, childIndex) ==
    IF kind = "Octree" THEN OctChildBox(node, childIndex) ELSE QuadChildBox(node, childIndex)

\* insertRecursive and subdivide as a machine: st = [nodes, stack, status],
\* stack holds what is still to run, the next on top (last): "call" is a
\* call insertRecursive(node at p, img), "rest" the part of an activation
\* after its subdivide, from `if (!node->isLeaf)` on
HmFrame(op, p, img) == [op |-> op, p |-> p, img |-> img]

\* subdivide: isLeaf = false, the buffer moved out, then
\* insertRecursive(node, img) for each image of it in order
HmSubdivide(kind, nodes, p) ==
    [nodes |-> [nodes EXCEPT ![p].isLeaf = FALSE, ![p].images = <<>>],
     calls |-> LET imgs == nodes[p].images
               IN  [k \in 1..Len(imgs) |-> HmFrame("call", p, imgs[Len(imgs) + 1 - k])]]

HmInsertStep(kind, st) ==
    LET top == st.stack[Len(st.stack)]
        below == SubSeq(st.stack, 1, Len(st.stack) - 1)
        p == top.p
    IN  IF top.op = "call"
        THEN \* node->images.push_back(img) comes first, leaf or not
             IF Len(p) > DepthExplored THEN [st EXCEPT !.status = "deeper"]
             ELSE LET pushed == [st.nodes EXCEPT ![p].images = Append(@, top.img)]
                  IN  IF pushed[p].isLeaf /\ Len(pushed[p].images) > BenchMaxImages
                      THEN LET sub == HmSubdivide(kind, pushed, p)
                           IN  [st EXCEPT !.nodes = sub.nodes,
                                          !.stack = Append(below, HmFrame("rest", p, top.img))
                                                    \o sub.calls]
                      ELSE [st EXCEPT !.nodes = pushed,
                                      !.stack = Append(below, HmFrame("rest", p, top.img))]
        ELSE IF st.nodes[p].isLeaf THEN [st EXCEPT !.stack = below]
        ELSE LET q == Append(p, HmGetChildIndex(kind, st.nodes[p], top.img))
             IN  [st EXCEPT !.nodes = IF q \in DOMAIN st.nodes THEN st.nodes
                                      ELSE st.nodes @@
                                           (q :> HmChildBounds(kind, st.nodes[p], q[Len(q)])),
                            !.stack = Append(below, HmFrame("call", q, top.img))]

RECURSIVE HmInsertRun(_, _, _)
HmInsertRun(kind, st, k) ==
    IF st.stack = <<>> \/ st.status = "deeper" THEN st
    ELSE IF k = 0 THEN HmInsertStep(kind, st)
    ELSE HmInsertRun(kind, HmInsertRun(kind, st, k - 1), k - 1)

\* insertRecursive(root.get(), img)
HmInsertRecursive(kind, nodes, img) ==
    HmInsertRun(kind, [nodes |-> nodes, stack |-> <<HmFrame("call", <<>>, img)>>,
                       status |-> "idle"], LoopFuelBits)

\* insert: insertRecursive(root.get(), img); totalImages++
HmInsertInto(kind, tree, img) ==
    LET out == HmInsertRecursive(kind, tree.nodes, img)
    IN  [nodes |-> out.nodes,
         totalImages |-> IF out.status = "idle" THEN tree.totalImages + 1
                         ELSE tree.totalImages,
         status |-> out.status]

\* `if (std::sqrt(minDist) > threshold) return;`
HmPruned(kind, node, query, threshold) ==
    IF kind = "Octree" THEN ~OctNodeIntersectsQueryRadius(node, query, threshold)
    ELSE ~QuadNodeIntersectsQueryRadius(node, query, threshold)

\* searchRecursive: the buffer of this node, leaf or not, then the children
RECURSIVE HmSearchRecursive(_, _, _, _, _)
HmSearchRecursive(kind, nodes, p, query, threshold) ==
    IF HmPruned(kind, nodes[p], query, threshold) THEN <<>>
    ELSE LET below == [k \in 1..8 |->
                 IF Append(p, k - 1) \in DOMAIN nodes
                 THEN HmSearchRecursive(kind, nodes, Append(p, k - 1), query, threshold)
                 ELSE <<>>]
         IN  Matching(query, threshold, nodes[p].images) \o Flatten(below, 1, 8)

HmInit ==
    /\ Constructed
    /\ OrderIdle
    /\ OhIdle
    /\ OitIdle
    /\ LocIdle
    /\ SbIdle
    /\ HmIdle
    /\ PrIdle
    /\ HsIdle
    /\ RxIdle
    /\ RiIdle
    /\ ClIdle

\* the benchmark inserts every image into each structure
HmInsert(p) ==
    /\ hm.ret = HmNoRet
    /\ hm.Octree.status = "idle" /\ hm.Quadtree.status = "idle"
    /\ hm.Octree.totalImages < MaxInserts
    /\ LET img == [id |-> hm.Octree.totalImages + 1, r |-> p.r, g |-> p.g, b |-> p.b]
       IN  hm' = [hm EXCEPT !.Octree = HmInsertInto("Octree", @, img),
                            !.Quadtree = HmInsertInto("Quadtree", @, img)]
    /\ UNCHANGED hmRest

HmQuery(kind, q, t) ==
    /\ hm.ret = HmNoRet
    /\ hm[kind].status = "idle"
    /\ hm' = [hm EXCEPT !.ret = [kind |-> kind, q |-> q, t |-> t,
                  list |-> HmSearchRecursive(kind, hm[kind].nodes, <<>>, q, t)]]
    /\ UNCHANGED hmRest

HmNext ==
    \/ \E p \in Points : HmInsert(p)
    \/ \E q \in Queries, t \in TreeThresholds : HmQuery("Octree", q, t)
    \/ \E q \in Queries, t \in TreeThresholds : HmQuery("Quadtree", q, t)

SpecHm == HmInit /\ [][HmNext]_vars

\* C22: in OctreeSearch and QuadtreeSearch of the 100M benchmark, after any
\* sequence of inserts every non-leaf node's buffer is empty and each
\* inserted record is stored in exactly one leaf.
C22_BenchRecordsOnlyInLeaves ==
    \A kind \in {"Octree", "Quadtree"} :
        hm[kind].status = "idle" =>
            /\ \A p \in DOMAIN hm[kind].nodes :
                  ~hm[kind].nodes[p].isLeaf => hm[kind].nodes[p].images = <<>>
            /\ \A n \in 1..hm[kind].totalImages : StoredCount(hm[kind].nodes, n) = 1


\* ------------------------------------------------ split rule (octree)
IsPrefix(p, q) == Len(p) <= Len(q) /\ SubSeq(q, 1, Len(p)) = p

\* the ids of the records buffered at or below the node at p
OctIdsUnder(nodes, p) ==
    { nodes[e[1]].images[e[2]].id : e \in
        UNION { { <<q, i>> : i \in DOMAIN nodes[q].images } :
                q \in { q3 \in DOMAIN nodes : IsPrefix(p, q3) } } }

\* after a completed insert: a node that is no leaf lies above the depth
\* limit and has more than maxImagesPerNode records under it; a leaf above
\* the depth limit holds at most maxImagesPerNode
OctSplitRuleState ==
    \A p \in DOMAIN octree.nodes :
        LET node == octree.nodes[p]
        IN  /\ ~node.isLeaf =>
                 /\ Len(p) < OctreeDepthLimit
                 /\ Cardinality(OctIdsUnder(octree.nodes, p)) > MaxImagesPerNode
                 /\ \A i \in 0..7 : Append(p, i) \in DOMAIN octree.nodes
            /\ (node.isLeaf /\ Len(p) < OctreeDepthLimit) =>
                 Len(node.images) <= MaxImagesPerNode
            /\ Len(p) <= OctreeDepthLimit

\* across an operation: a node that is no leaf stays one, and its children
\* are the ones it was given (same boxes, no record lost below them)
OctSplitRuleStep ==
    \A p \in DOMAIN octree.nodes :
        /\ p \in DOMAIN octree'.nodes
        /\ [octree'.nodes[p] EXCEPT !.images = <<>>, !.isLeaf = TRUE]
             = [octree.nodes[p] EXCEPT !.images = <<>>, !.isLeaf = TRUE]
        /\ ~octree.nodes[p].isLeaf =>
              /\ ~octree'.nodes[p].isLeaf
              /\ OctIdsUnder(octree.nodes, p) \subseteq OctIdsUnder(octree'.nodes, p)

\* C23: in the recursive OctreeSearch a node stays a leaf until its buffer
\* exceeds maxImagesPerNode at a depth below 15, then subdivides once and is
\* never a leaf again; after every completed insert each leaf at depth < 15
\* holds at most maxImagesPerNode records, only depth-15 leaves hold more.
C23_OctreeSplitRule == []OctSplitRuleState /\ [][OctSplitRuleStep]_vars

\* inseparable records have gone down to a depth-15 leaf that holds more
\* than maxImagesPerNode, below a chain of split nodes
C23_Witness ==
    /\ ~octree.nodes[<<>>].isLeaf
    /\ \E p \in DOMAIN octree.nodes :
          /\ Len(p) = OctreeDepthLimit
          /\ octree.nodes[p].isLeaf
          /\ Len(octree.nodes[p].images) > MaxImagesPerNode


\* ------------------------------------------- geometric pruning alone
\* the boxes of the root, of its children and of their children
PrOctBoxes ==
    LET root == OctreeNew.nodes[<<>>]
    IN  {root} \cup { OctChildBox(root, i) : i \in 0..7 }
               \cup { OctChildBox(OctChildBox(root, i), j) : i \in {0, 7}, j \in 0..7 }

PrQuadBoxes ==
    LET root == QuadtreeNew.nodes[<<>>]
    IN  {root} \cup { QuadChildBox(root, i) : i \in 0..3 }
               \cup { QuadChildBox(QuadChildBox(root, i), j) : i \in 0..3, j \in 0..3 }

\* query coordinates 0, 87.5, 97.5 and 200: 30 and 40 short of the middle
\* plane, so that a box lies at distance 50 exactly
PrCoords == { H(0), H(175), H(195), H(400) }

PrQueries == { [r |-> r, g |-> g, b |-> b] : r \in PrCoords, g \in PrCoords, b \in PrCoords }

PrThresholds == { H(0), H(60), H(100), H(255) }

PrInit ==
    /\ Constructed
    /\ OthersIdle

PruneOct(node, q, t) ==
    /\ pr = PrNone
    /\ pr' = [kind |-> "Octree", node |-> node, q |-> q, t |-> t,
              result |-> OctNodeIntersectsQueryRadius(node, q, t)]
    /\ UNCHANGED prRest

PruneQuad(node, q, t) ==
    /\ pr = PrNone
    /\ pr' = [kind |-> "Quadtree", node |-> node, q |-> q, t |-> t,
              result |-> QuadNodeIntersectsQueryRadius(node, q, t)]
    /\ UNCHANGED prRest

PrNext ==
    \/ \E node \in PrOctBoxes, q \in PrQueries, t \in PrThresholds : PruneOct(node, q, t)
    \/ \E node \in PrQuadBoxes, q \in PrQueries, t \in PrThresholds : PruneQuad(node, q, t)

SpecPrune == PrInit /\ [][PrNext]_vars

\* points of [lo, hi] to measure from x: both ends, the middle, and x itself
\* when it lies between them (so the nearest point is always among them)
PrAxisPoints(x, lo, hi) ==
    {lo, hi, (lo + hi) \div 2} \cup (IF x >= lo /\ x <= hi THEN {x} ELSE {})

\* points of the region a node stands for: its box for the octree; for the
\* quadtree its rectangle with any third coordinate
PrRegionPoints(kind, node, q) ==
    { [r |-> r, g |-> g, b |-> b] :
        r \in PrAxisPoints(q.r, node.minR, node.maxR),
        g \in PrAxisPoints(q.g, node.minG, node.maxG),
        b \in IF kind = "Octree" THEN PrAxisPoints(q.b, node.minB, node.maxB)
              ELSE PrAxisPoints(q.b, 0, RgbMax * Scale) }

PrQueryInside(kind, node, q) ==
    /\ q.r >= node.minR /\ q.r <= node.maxR
    /\ q.g >= node.minG /\ q.g <= node.maxG
    /\ kind = "Octree" => (q.b >= node.minB /\ q.b <= node.maxB)

\* C24: nodeIntersectsQueryRadius is a valid lower bound: it returns false
\* only if every point of the node's box (for the quadtree: of its rectangle,
\* with any third coordinate) is farther than threshold from the query, and
\* it returns true whenever the query lies inside the box.
C24_PruningIsLowerBound ==
    pr.kind # "none" =>
        /\ ~pr.result =>
              \A x \in PrRegionPoints(pr.kind, pr.node, pr.q) : ~Within(pr.q, x, pr.t)
        /\ PrQueryInside(pr.kind, pr.node, pr.q) => pr.result

\* a box at distance 50 exactly from the query is kept at threshold 50
C24_Witness ==
    /\ pr.kind = "Octree"
    /\ pr.t = H(100)
    /\ pr.result
    /\ ~PrQueryInside(pr.kind, pr.node, pr.q)
    /\ \A x \in PrRegionPoints(pr.kind, pr.node, pr.q) : ~WithinStrict(pr.q, x, pr.t)


\* --------------------------------- HashSearch of hash_search.h alone
\* the default cellSize of the constructor
HsCellSize == H(60)

\* (1,10,10), (31,10,10), (35,35,10) and (20,10,10)
HsPoints == { Pt(2, 20, 20), Pt(62, 20, 20), Pt(70, 70, 20), Pt(40, 20, 20) }

\* (29,10,10) and (10,10,10)
HsQueries == { Pt(58, 20, 20), Pt(20, 20, 20) }

HsThresholds == { H(0), H(80) }

\* the cells searchCubeAtRadius hands to searchSingleCell, in loop order
HdrCellsAtRadius(cr, cg, cb, radius) ==
    IF radius = 0 THEN << <<cr, cg, cb>> >>
    ELSE LET Visit(s, dr, dg, db) ==
                 IF AtRadius(dr, dg, db, radius)
                 THEN [results |-> Append(s.results, <<cr + dr, cg + dg, cb + db>>)]
                 ELSE s
         IN  CubeLoop(Visit, [results |-> <<>>], radius, 0, CubeCells(radius) - 1).results

\* the cells examined by findSimilarDynamic when no limit stops its loop
RECURSIVE HdrCellsExamined(_, _, _, _, _)
HdrCellsExamined(cr, cg, cb, from, max_radius) ==
    IF from > max_radius THEN <<>>
    ELSE HdrCellsAtRadius(cr, cg, cb, from)
            \o HdrCellsExamined(cr, cg, cb, from + 1, max_radius)

HsInit ==
    /\ Constructed
    /\ OthersIdle

HsInsert(p) ==
    /\ hs.ret = HsNoRet
    /\ Len(hs.images) < MaxInserts
    /\ LET img == [id |-> Len(hs.images) + 1, r |-> p.r, g |-> p.g, b |-> p.b]
       IN  hs' = [hs EXCEPT !.grid = HashInsert(@, img, HsCellSize),
                            !.images = Append(@, img)]
    /\ UNCHANGED hsRest

\* findSimilar(q, t)
HsFindSimilar(q, t) ==
    /\ hs.ret = HsNoRet
    /\ LET out == HdrFindSimilar(hs.grid, HsCellSize, q, t)
       IN  hs' = [hs EXCEPT !.grid = out.grid,
                            !.ret = [called |-> TRUE, q |-> q, t |-> t, maxResults |-> -1,
                                     cells |-> HdrCellsExamined(rgbToCell(q.r, HsCellSize),
                                                                rgbToCell(q.g, HsCellSize),
                                                                rgbToCell(q.b, HsCellSize), 0,
                                                                cellRadius(t, HsCellSize)),
                                     list |-> out.results]]
    /\ UNCHANGED hsRest

\* findSimilarWithLimit(q, t, k)
HsFindSimilarWithLimit(q, t, k) ==
    /\ hs.ret = HsNoRet
    /\ LET out == findSimilarDynamic(hs.grid, HsCellSize, q, t, k)
       IN  hs' = [hs EXCEPT !.grid = out.grid,
                            !.ret = [called |-> TRUE, q |-> q, t |-> t, maxResults |-> k,
                                     cells |-> <<>>, list |-> out.results]]
    /\ UNCHANGED hsRest

HsNext ==
    \/ \E p \in HsPoints : HsInsert(p)
    \/ \E q \in HsQueries, t \in HsThresholds : HsFindSimilar(q, t)
    \/ \E q \in HsQueries, t \in HsThresholds, k \in 1..2 : HsFindSimilarWithLimit(q, t, k)

SpecHs == HsInit /\ [][HsNext]_vars

Chebyshev(dr, dg, db) ==
    LET a == Abs(dr) b == Abs(dg) c == Abs(db)
    IN  IF a >= b /\ a >= c THEN a ELSE IF b >= c THEN b ELSE c

\* C25: over radius 0..max_radius the expanding cube of hash_search.h
\* examines every cell of the cube exactly once (at the radius that is its
\* Chebyshev distance from the query cell), so no record is tested twice.
C25_ShellsAreDisjoint ==
    (hs.ret.called /\ hs.ret.maxResults = -1) =>
        LET cr == rgbToCell(hs.ret.q.r, HsCellSize)
            cg == rgbToCell(hs.ret.q.g, HsCellSize)
            cb == rgbToCell(hs.ret.q.b, HsCellSize)
            max_radius == cellRadius(hs.ret.t, HsCellSize)
        IN  /\ \A dr \in -max_radius..max_radius, dg \in -max_radius..max_radius,
                  db \in -max_radius..max_radius :
                  Cardinality({ i \in DOMAIN hs.ret.cells :
                                  hs.ret.cells[i] = <<cr + dr, cg + dg, cb + db>> }) = 1
            /\ \A radius \in 1..max_radius :
                  \A c \in { HdrCellsAtRadius(cr, cg, cb, radius)[i] :
                              i \in DOMAIN HdrCellsAtRadius(cr, cg, cb, radius) } :
                      Chebyshev(c[1] - cr, c[2] - cg, c[3] - cb) = radius
            /\ \A i \in DOMAIN hs.images : Count(hs.ret.list, hs.images[i].id) <= 1

\* C26: findSimilarWithLimit(query, threshold, k) with k >= 1 returns the k
\* nearest matches: min(k, m) entries for m matching records, and no
\* returned record is farther from the query than a matching record that
\* was not returned.
C26_LimitKeepsNearest ==
    (hs.ret.called /\ hs.ret.maxResults >= 1) =>
        LET matches == Matching(hs.ret.q, hs.ret.t, hs.images)
            m == Len(matches)
            k == hs.ret.maxResults
        IN  /\ Len(hs.ret.list) = IF k < m THEN k ELSE m
            /\ \A i \in DOMAIN hs.ret.list, j \in DOMAIN matches :
                  Count(hs.ret.list, matches[j].id) = 0 =>
                      ~Closer(hs.ret.q, matches[j], hs.ret.list[i])


\* ----------------------- OctreeSearch with the relaxed pruning test
\* depth < 25 in its insertRecursive
RxDepthLimit == 25

\* the box of children[i] as createChildren writes it: children 5 and 7
\* are given the whole B range of their parent
RxChildBox(node, i) ==
    LET midR == (node.minR + node.maxR) \div 2
        midG == (node.minG + node.maxG) \div 2
        midB == (node.minB + node.maxB) \div 2
    IN  OctreeNodeNew(IF i \div 4 = 0 THEN node.minR ELSE midR,
                      IF i \div 4 = 0 THEN midR ELSE node.maxR,
                      IF (i \div 2) % 2 = 0 THEN node.minG ELSE midG,
                      IF (i \div 2) % 2 = 0 THEN midG ELSE node.maxG,
                      IF i % 2 = 0 \/ i \in {5, 7} THEN node.minB ELSE midB,
                      IF i % 2 = 0 THEN midB ELSE node.maxB)

RxCreateChildren(nodes, p) ==
    [q \in DOMAIN nodes \cup { Append(p, i) : i \in 0..7 } |->
        IF q = p THEN [nodes[p] EXCEPT !.isLeaf = FALSE]
        ELSE IF q \in DOMAIN nodes THEN nodes[q]
        ELSE RxChildBox(nodes[p], q[Len(q)])]

\* insertRecursive, as OctInsertStep: st = [nodes, maxDepth, stack]
RxInsertStep(st) ==
    LET f == st.stack[Len(st.stack)]
        rest == SubSeq(st.stack, 1, Len(st.stack) - 1)
        p == f.p
        depth == Len(p)
        node == st.nodes[p]
    IN  IF f.i = 0
        THEN LET md == IF depth > st.maxDepth THEN depth ELSE st.maxDepth
             IN  IF node.isLeaf
                 THEN IF Len(node.images) + 1 > MaxImagesPerNode /\ depth < RxDepthLimit
                      THEN [nodes |-> RxCreateChildren(
                                          [st.nodes EXCEPT ![p].images = Append(@, f.img)], p),
                            maxDepth |-> md,
                            stack |-> Append(rest, OctFrame(p, f.img, 1))]
                      ELSE [nodes |-> [st.nodes EXCEPT ![p].images = Append(@, f.img)],
                            maxDepth |-> md,
                            stack |-> rest]
                 ELSE [nodes |-> st.nodes,
                       maxDepth |-> md,
                       stack |-> Append(rest, OctFrame(Append(p, OctGetChildIndex(node, f.img)),
                                                       f.img, 0))]
        ELSE IF f.i > Len(node.images)
             THEN [nodes |-> [st.nodes EXCEPT ![p].images = <<>>],
                   maxDepth |-> st.maxDepth,
                   stack |-> rest]
             ELSE LET existingImg == node.images[f.i]
                      childIdx == OctGetChildIndex(node, existingImg)
                  IN  [nodes |-> st.nodes,
                       maxDepth |-> st.maxDepth,
                       stack |-> rest \o <<OctFrame(p, f.img, f.i + 1),
                                           OctFrame(Append(p, childIdx), existingImg, 0)>>]

RECURSIVE RxInsertRun(_, _)
RxInsertRun(st, k) ==
    IF st.stack = <<>> THEN st
    ELSE IF k = 0 THEN RxInsertStep(st)
    ELSE RxInsertRun(RxInsertRun(st, k - 1), k - 1)

RxInsertRecursive(nodes, maxDepth, img) ==
    RxInsertRun([nodes |-> nodes, maxDepth |-> maxDepth,
                 stack |-> <<OctFrame(<<>>, img, 0)>>], LoopFuelBits)

\* a plausible slip: the factor divides, which tightens the test
RxNodeIntersectsTightened(node, query, threshold) ==
    threshold >= 0 /\ LimbLeq(OctMinDistSq(node, query), Sq(threshold \div 4))

\* sqrt(minDistSq) <= threshold * 4.0
RxNodeIntersectsQueryRadius(node, query, threshold) ==
    threshold >= 0 /\ LimbLeq(OctMinDistSq(node, query), Sq(threshold * 4))

RxSearchStep(nodes, query, threshold, st) ==
    LET p == st.stack[Len(st.stack)]
        rest == SubSeq(st.stack, 1, Len(st.stack) - 1)
    IN  IF p \notin DOMAIN nodes THEN [stack |-> rest, results |-> st.results]
        ELSE IF ~RxNodeIntersectsQueryRadius(nodes[p], query, threshold)
             THEN [stack |-> rest, results |-> st.results]
        ELSE IF nodes[p].isLeaf
             THEN [stack |-> rest,
                   results |-> st.results \o Matching(query, threshold, nodes[p].images)]
        ELSE [stack |-> rest \o [k \in 1..8 |-> Append(p, 8 - k)],
              results |-> st.results]

RECURSIVE RxSearchRun(_, _, _, _, _)
RxSearchRun(nodes, query, threshold, st, k) ==
    IF st.stack = <<>> THEN st
    ELSE IF k = 0 THEN RxSearchStep(nodes, query, threshold, st)
    ELSE RxSearchRun(nodes, query, threshold,
                     RxSearchRun(nodes, query, threshold, st, k - 1), k - 1)

RxSearchRecursive(nodes, query, threshold) ==
    RxSearchRun(nodes, query, threshold,
                [stack |-> << <<>> >>, results |-> <<>>], LoopFuelBits).results

RxFindSimilar(nodes, query, threshold) ==
    SortByDistance(query, RxSearchRecursive(nodes, query, threshold))

RxInit ==
    /\ Constructed
    /\ OthersIdle

\* insert; the records are pairwise different points, which the 2^-15 grid
\* of this model separates exactly as the doubles of the code do
RxInsert(p) ==
    /\ rx.ret = RxNoRet
    /\ Len(rx.images) < MaxInserts
    /\ \A i \in DOMAIN rx.images : ~SamePoint(rx.images[i], p)
    /\ LET img == [id |-> Len(rx.images) + 1, r |-> p.r, g |-> p.g, b |-> p.b]
           tr == RxInsertRecursive(rx.nodes, rx.maxDepth, img)
       IN  rx' = [rx EXCEPT !.nodes = tr.nodes, !.maxDepth = tr.maxDepth,
                            !.totalImages = @ + 1, !.images = Append(@, img)]
    /\ UNCHANGED rxRest

RxQuery(q, t) ==
    /\ rx.ret = RxNoRet
    /\ rx' = [rx EXCEPT !.ret = [called |-> TRUE, q |-> q, t |-> t,
                                 list |-> RxFindSimilar(rx.nodes, q, t)]]
    /\ UNCHANGED rxRest

RxNext ==
    \/ \E p \in Points : RxInsert(p)
    \/ \E q \in Queries, t \in TreeThresholds : RxQuery(q, t)

SpecRx == RxInit /\ [][RxNext]_vars

RiDepthLimit == 15

RiArity(kind) == IF kind = "Quadtree" THEN 4 ELSE 8

\* bit 0 = R, bit 1 = G, bit 2 = B
RiGetChildIndex(kind, node, img) ==
    LET midR == (node.minR + node.maxR) \div 2
        midG == (node.minG + node.maxG) \div 2
    IN  (IF img.r >= midR THEN 1 ELSE 0)
      + (IF img.g >= midG THEN 2 ELSE 0)
      + (IF kind = "Octree"
         THEN (IF img.b >= (node.minB + node.maxB) \div 2 THEN 4 ELSE 0)
         ELSE 0)

\* the box of children[i] as createChildren writes it; the octree gives
\* its children 2, 3, 6 and 7 the G range maxR..maxG
RiChildBox(kind, node, i) ==
    LET midR == (node.minR + node.maxR) \div 2
        midG == (node.minG + node.maxG) \div 2
    IN  IF kind = "Quadtree"
        THEN QuadtreeNodeNew(IF i % 2 = 0 THEN node.minR ELSE midR,
                             IF i % 2 = 0 THEN midR ELSE node.maxR,
                             IF i \div 2 = 0 THEN node.minG ELSE midG,
                             IF i \div 2 = 0 THEN midG ELSE node.maxG)
        ELSE LET midB == (node.minB + node.maxB) \div 2
             IN  OctreeNodeNew(IF i % 2 = 0 THEN node.minR ELSE midR,
                               IF i % 2 = 0 THEN midR ELSE node.maxR,
                               IF (i \div 2) % 2 = 0 THEN node.minG ELSE node.maxR,
                               IF (i \div 2) % 2 = 0 THEN midG ELSE node.maxG,
                               IF i \div 4 = 0 THEN node.minB ELSE midB,
                               IF i \div 4 = 0 THEN midB ELSE node.maxB)

RiCreateChildren(kind, nodes, p) ==
    IF ~nodes[p].isLeaf THEN nodes
    ELSE [q \in DOMAIN nodes \cup { Append(p, i) : i \in 0..(RiArity(kind) - 1) } |->
            IF q = p THEN [nodes[p] EXCEPT !.isLeaf = FALSE]
            ELSE IF q \in DOMAIN nodes THEN nodes[q]
            ELSE RiChildBox(kind, nodes[p], q[Len(q)])]

\* insertRecursive of QuadtreeRecursivo / OctreeRecursivo over its call
\* stack, frames as in OctInsertStep; st = [nodes, stack]
RiRecStep(kind, st) ==
    LET f == st.stack[Len(st.stack)]
        rest == SubSeq(st.stack, 1, Len(st.stack) - 1)
        p == f.p
        depth == Len(p)
        node == st.nodes[p]
    IN  IF f.i = 0
        THEN IF node.isLeaf
             THEN LET pushed == [st.nodes EXCEPT ![p].images = Append(@, f.img)]
                  IN  IF Len(node.images) + 1 > MaxImagesPerNode /\ depth < RiDepthLimit
                      THEN [nodes |-> RiCreateChildren(kind, pushed, p),
                            stack |-> Append(rest, OctFrame(p, f.img, 1))]
                      ELSE [nodes |-> pushed, stack |-> rest]
             ELSE [nodes |-> st.nodes,
                   stack |-> Append(rest,
                                OctFrame(Append(p, RiGetChildIndex(kind, node, f.img)),
                                         f.img, 0))]
        ELSE IF f.i > Len(node.images)
             THEN [nodes |-> [st.nodes EXCEPT ![p].images = <<>>], stack |-> rest]
             ELSE LET existingImg == node.images[f.i]
                      childIdx == RiGetChildIndex(kind, node, existingImg)
                  IN  [nodes |-> st.nodes,
                       stack |-> rest \o <<OctFrame(p, f.img, f.i + 1),
                                           OctFrame(Append(p, childIdx), existingImg, 0)>>]

RECURSIVE RiRecRun(_, _, _)
RiRecRun(kind, st, k) ==
    IF st.stack = <<>> THEN st
    ELSE IF k = 0 THEN RiRecStep(kind, st)
    ELSE RiRecRun(kind, RiRecRun(kind, st, k - 1), k - 1)

RiInsertRecursive(kind, nodes, img) ==
    RiRecRun(kind, [nodes |-> nodes, stack |-> <<OctFrame(<<>>, img, 0)>>],
             LoopFuelBits).nodes

\* a plausible slip: the split node keeps its buffer
RiIterClearForgotten(nodes, p) == nodes

\* item.node->images.clear()
RiIterClear(nodes, p) == [nodes EXCEPT ![p].images = <<>>]

\* one pass of the while loop of insertIterative; the stack holds items
\* [p, img] (depth is Len(p)), the top last; st = [nodes, stack]
RiIterStep(kind, st) ==
    LET item == st.stack[Len(st.stack)]
        rest == SubSeq(st.stack, 1, Len(st.stack) - 1)
        p == item.p
        node == st.nodes[p]
    IN  IF node.isLeaf
        THEN LET pushed == [st.nodes EXCEPT ![p].images = Append(@, item.img)]
                 imgs == pushed[p].images
             IN  IF Len(imgs) > MaxImagesPerNode /\ Len(p) < RiDepthLimit
                 THEN [nodes |-> RiIterClear(RiCreateChildren(kind, pushed, p), p),
                       stack |-> rest \o
                           [k \in 1..Len(imgs) |->
                               [p |-> Append(p, RiGetChildIndex(kind, node, imgs[k])),
                                img |-> imgs[k]]]]
                 ELSE [nodes |-> pushed, stack |-> rest]
        ELSE [nodes |-> st.nodes,
              stack |-> Append(rest, [p |-> Append(p, RiGetChildIndex(kind, node, item.img)),
                                      img |-> item.img])]

RECURSIVE RiIterRun(_, _, _)
RiIterRun(kind, st, k) ==
    IF st.stack = <<>> THEN st
    ELSE IF k = 0 THEN RiIterStep(kind, st)
    ELSE RiIterRun(kind, RiIterRun(kind, st, k - 1), k - 1)

RiInsertIterative(kind, nodes, img) ==
    RiIterRun(kind, [nodes |-> nodes, stack |-> << [p |-> <<>>, img |-> img] >>],
              LoopFuelBits).nodes

\* searchRecursive (children 0.. in order) and searchIterative (the
\* children are pushed in order, so the last is popped first); neither
\* prunes; st = [stack, results], the next node to visit last
RiSearchStep(kind, recursive, nodes, query, threshold, st) ==
    LET p == st.stack[Len(st.stack)]
        rest == SubSeq(st.stack, 1, Len(st.stack) - 1)
        n == RiArity(kind)
    IN  IF p \notin DOMAIN nodes THEN [stack |-> rest, results |-> st.results]
        ELSE IF nodes[p].isLeaf
             THEN [stack |-> rest,
                   results |-> st.results \o Matching(query, threshold, nodes[p].images)]
        ELSE [stack |-> rest \o [k \in 1..n |->
                                    Append(p, IF recursive THEN n - k ELSE k - 1)],
              results |-> st.results]

RECURSIVE RiSearchRun(_, _, _, _, _, _, _)
RiSearchRun(kind, recursive, nodes, query, threshold, st, k) ==
    IF st.stack = <<>> THEN st
    ELSE IF k = 0 THEN RiSearchStep(kind, recursive, nodes, query, threshold, st)
    ELSE RiSearchRun(kind, recursive, nodes, query, threshold,
                     RiSearchRun(kind, recursive, nodes, query, threshold, st, k - 1), k - 1)

\* findSimilar: the results are returned as collected, unsorted
RiFindSimilar(kind, recursive, nodes, query, threshold) ==
    RiSearchRun(kind, recursive, nodes, query, threshold,
                [stack |-> << <<>> >>, results |-> <<>>], LoopFuelBits).results

RiInit ==
    /\ Constructed
    /\ OthersIdle

\* the benchmark inserts every image into each structure
RiInsert(p) ==
    /\ ri.ret = RiNoRet
    /\ ri.totalImages < MaxInserts
    /\ LET img == [id |-> ri.totalImages + 1, r |-> p.r, g |-> p.g, b |-> p.b]
       IN  ri' = [ri EXCEPT !.QuadRec = RiInsertRecursive("Quadtree", @, img),
                            !.QuadIter = RiInsertIterative("Quadtree", @, img),
                            !.OctRec = RiInsertRecursive("Octree", @, img),
                            !.OctIter = RiInsertIterative("Octree", @, img),
                            !.totalImages = @ + 1]
    /\ UNCHANGED riRest

RiQuery(q, t) ==
    /\ ri.ret = RiNoRet
    /\ ri' = [ri EXCEPT !.ret =
                 [called |-> TRUE, q |-> q, t |-> t,
                  QuadRec |-> RiFindSimilar("Quadtree", TRUE, ri.QuadRec, q, t),
                  QuadIter |-> RiFindSimilar("Quadtree", FALSE, ri.QuadIter, q, t),
                  OctRec |-> RiFindSimilar("Octree", TRUE, ri.OctRec, q, t),
                  OctIter |-> RiFindSimilar("Octree", FALSE, ri.OctIter, q, t)]]
    /\ UNCHANGED riRest

RiNext ==
    \/ \E p \in Points : RiInsert(p)
    \/ \E q \in Queries, t \in TreeThresholds : RiQuery(q, t)

SpecRi == RiInit /\ [][RiNext]_vars

\* same nodes, same boxes and leaf flags, same records in each buffer
RiSameTree(a, b) ==
    /\ DOMAIN a = DOMAIN b
    /\ \A p \in DOMAIN a :
          /\ [a[p] EXCEPT !.images = <<>>] = [b[p] EXCEPT !.images = <<>>]
          /\ Len(a[p].images) = Len(b[p].images)
          /\ \A n \in 1..ri.totalImages : Count(a[p].images, n) = Count(b[p].images, n)

RiSameRecords(s, t) ==
    /\ Len(s) = Len(t)
    /\ \A n \in 1..ri.totalImages : Count(s, n) = Count(t, n)

\* C28: in the recursion-vs-iteration benchmark QuadtreeRecursivo and
\* QuadtreeIterativo, and OctreeRecursivo and OctreeIterativo, end with the
\* same tree shape and the same multiset of records in each leaf, and
\* findSimilar returns the same multiset of records.
C28_RecursiveEqualsIterative ==
    /\ RiSameTree(ri.QuadRec, ri.QuadIter)
    /\ RiSameTree(ri.OctRec, ri.OctIter)
    /\ ri.ret.called =>
          /\ RiSameRecords(ri.ret.QuadRec, ri.ret.QuadIter)
          /\ RiSameRecords(ri.ret.OctRec, ri.ret.OctIter)

\* both roots have split and the two octrees return the same records in a
\* different order
C28_Witness ==
    /\ ri.ret.called
    /\ ~ri.OctRec[<<>>].isLeaf
    /\ ~ri.QuadRec[<<>>].isLeaf
    /\ Len(ri.ret.OctRec) > 1
    /\ ri.ret.OctRec # ri.ret.OctIter


\* ------------------------------------------------ clear() and reuse
\* hashFunction on the int coordinates of Image
ClHashFunction(r, g, b) ==
    (r \div GRID_SIZE) * 64 * 64 + (g \div GRID_SIZE) * 64 + (b \div GRID_SIZE)

\* HashSearch::insert: hashGrid[hash].push_back(image)
ClHashInsert(g, img) ==
    LET hash == ClHashFunction(img.r, img.g, img.b)
    IN  IF hash \in DOMAIN g THEN [g EXCEPT ![hash] = Append(@, img)]
        ELSE g @@ (hash :> <<img>>)

\* HashSearch::search: the 27 cells around the query's, those with a
\* negative index skipped, in loop order
ClHashSearch(g, query, threshold) ==
    LET cell(n) ==
            LET cellR == query.r \div GRID_SIZE + ((n \div 9) - 1)
                cellG == query.g \div GRID_SIZE + (((n \div 3) % 3) - 1)
                cellB == query.b \div GRID_SIZE + ((n % 3) - 1)
                neighborHash == cellR * 64 * 64 + cellG * 64 + cellB
            IN  IF cellR >= 0 /\ cellG >= 0 /\ cellB >= 0 /\ neighborHash \in DOMAIN g
                THEN SelectSeq(g[neighborHash], LAMBDA img : LocWithin(img, query, threshold))
                ELSE <<>>
    IN  Flatten([n \in 1..27 |-> cell(n - 1)], 1, 27)

\* HashSearch::size
ClHashSize(g) == Len(Flatten([n \in 1..Cardinality(DOMAIN g) |->
                     g[CHOOSE h \in DOMAIN g :
                          Cardinality({ k \in DOMAIN g : k < h }) = n - 1]],
                     1, Cardinality(DOMAIN g)))

\* LinearSearch::search
ClLinearSearch(imgs, query, threshold) ==
    SelectSeq(imgs, LAMBDA img : LocWithin(img, query, threshold))

\* OctreeSearch::clear: a new root, imageStorage.clear() (which keeps the
\* heap block and its capacity), imageCount = 0
LocClear(st) ==
    [nodes |-> LocNew("Octree").nodes, imageCount |-> 0, imageStorage |-> <<>>,
     capacity |-> st.capacity, block |-> st.block]

\* LinearSearch::clear
ClLinearClear(imgs) == <<>>

ClInsertInto(db, img) ==
    [linear |-> Append(db.linear, img),
     hash |-> ClHashInsert(db.hash, img),
     octree |-> LocInsertInto("Octree", db.octree, img)]

ClInit ==
    /\ Constructed
    /\ OthersIdle

\* an earlier dataset goes into the instances that will be reused
ClInsertOld(p) ==
    /\ cl.phase = "old"
    /\ Len(cl.reused.linear) < MaxInserts
    /\ LET img == [r |-> p.r, g |-> p.g, b |-> p.b,
                   filename |-> 100 + Len(cl.reused.linear) + 1]
       IN  cl' = [cl EXCEPT !.reused = ClInsertInto(@, img)]
    /\ UNCHANGED clRest

\* db->clear() at the start of benchmarkStructure
ClClear ==
    /\ cl.phase = "old"
    /\ cl' = [cl EXCEPT !.phase = "new",
                        !.reused = [linear |-> ClLinearClear(@.linear),
                                    hash |-> <<>>,
                                    octree |-> LocClear(@.octree)]]
    /\ UNCHANGED clRest

\* a record of the dataset D goes into the reused and the fresh instances
ClInsert(p) ==
    /\ cl.phase = "new"
    /\ cl.ret = ClNoRet
    /\ Len(cl.fresh.linear) < MaxInserts
    /\ LET img == [r |-> p.r, g |-> p.g, b |-> p.b, filename |-> Len(cl.fresh.linear) + 1]
       IN  cl' = [cl EXCEPT !.reused = ClInsertInto(@, img),
                           !.fresh = ClInsertInto(@, img)]
    /\ UNCHANGED clRest

\* what search(q, t) gives on the three structures of db; read and crash
\* settle the reads through dangling pointers of the octree
ClSearchIn(db, q, t, read, crash) ==
    [linear |-> ClLinearSearch(db.linear, q, t),
     hash |-> ClHashSearch(db.hash, q, t),
     outcome |-> IF crash THEN "crash" ELSE "list",
     octree |-> IF crash THEN <<>>
                ELSE LocSearchRecursive("Octree", db.octree, <<>>, q, t, read)]

\* search(q, t) on both; a read through a dangling pointer is undefined:
\* in one run of the program such reads find the record still there
\* ("kept"), find other bytes ("garbage"), or end the program ("crash")
ClSearch(q, t) ==
    /\ cl.phase = "new"
    /\ cl.ret = ClNoRet
    /\ \E mode \in {"kept", "garbage", "crash"} :
          LET read(db) == [ptr \in LocDangling(db.octree) |->
                              IF mode = "garbage" THEN "garbage" ELSE "kept"]
              crash(db) == mode = "crash" /\ LocDangling(db.octree) # {}
          IN  cl' = [cl EXCEPT !.ret =
                 [called |-> TRUE, q |-> q, t |-> t,
                  reused |-> ClSearchIn(cl.reused, q, t, read(cl.reused), crash(cl.reused)),
                  fresh |-> ClSearchIn(cl.fresh, q, t, read(cl.fresh), crash(cl.fresh))]]
    /\ UNCHANGED clRest

ClNext ==
    \/ \E p \in LocPoints : ClInsertOld(p)
    \/ ClClear
    \/ \E p \in LocPoints : ClInsert(p)
    \/ \E q \in LocQueries, t \in LocThresholds : ClSearch(q, t)

SpecCl == ClInit /\ [][ClNext]_vars

\* C29: after any inserts followed by clear(), size() is 0 and every query
\* returns an empty list; inserting a dataset D and then querying gives the
\* same result as inserting D into a freshly constructed instance.
C29_ClearMakesReuseSafe ==
    cl.phase = "new" =>
        /\ Len(cl.reused.linear) = Len(cl.fresh.linear)
        /\ ClHashSize(cl.reused.hash) = ClHashSize(cl.fresh.hash)
        /\ cl.reused.octree.imageCount = cl.fresh.octree.imageCount
        /\ cl.ret.called => cl.ret.reused = cl.ret.fresh
        /\ (cl.ret.called /\ cl.fresh.linear = <<>>) =>
              /\ cl.ret.reused.linear = <<>>
              /\ cl.ret.reused.hash = <<>>
              /\ cl.ret.reused.outcome = "list"
              /\ cl.ret.reused.octree = <<>>


\* ------------------------------------------------ hash cell invariant
\* floor(coord / cellSize)
FloorCell(value, cs) == value \div cs

FloorCells(img, cs) == <<FloorCell(img.r, cs), FloorCell(img.g, cs), FloorCell(img.b, cs)>>

\* the bucket keys under which the record with this id is stored
HsBucketsOf(id) == { key \in DOMAIN hs.grid : Count(hs.grid[key], id) > 0 }

\* the cells this call has looked up, and those of the stored records
HsCellsSeen ==
    { hs.ret.cells[i] : i \in DOMAIN hs.ret.cells }
        \cup { FloorCells(hs.images[i], HsCellSize) : i \in DOMAIN hs.images }

\* C30: in HashSearch two stored records share a bucket if and only if
\* their cell coordinates floor(coord / cellSize) are equal on all three
\* axes; the composite key is injective on cell triples, negative ones
\* included; every stored record sits in the bucket of its own cell key.
C30_HashCellInvariant ==
    /\ \A i \in DOMAIN hs.images, j \in DOMAIN hs.images :
          (HsBucketsOf(hs.images[i].id) \cap HsBucketsOf(hs.images[j].id) # {})
              <=> (FloorCells(hs.images[i], HsCellSize) = FloorCells(hs.images[j], HsCellSize))
    /\ \A c \in HsCellsSeen, d \in HsCellsSeen :
          getCellKey(c[1], c[2], c[3]) = getCellKey(d[1], d[2], d[3]) => c = d
    /\ \A i \in DOMAIN hs.images :
          LET c == FloorCells(hs.images[i], HsCellSize)
          IN  /\ HsBucketsOf(hs.images[i].id) = {getCellKey(c[1], c[2], c[3])}
              /\ Count(hs.grid[getCellKey(c[1], c[2], c[3])], hs.images[i].id) = 1

\* two records share a bucket, a third has another, and the query has
\* looked up cells with negative coordinates
C30_Witness ==
    /\ Cardinality(DOMAIN hs.grid) > 1
    /\ \E key \in DOMAIN hs.grid : Len(hs.grid[key]) > 1
    /\ \E i \in DOMAIN hs.ret.cells : hs.ret.cells[i][1] < 0

====
